---- MODULE Spec2Model ----
(***************************************************************************)
(* Campaign generation pipeline of echang-home/panverse:                   *)
(*   - ContentCacheService        (src/src/services/cache_service.py)      *)
(*   - ContentIntegrityWatchdog   (src/src/domain/services/                *)
(*                                 content_integrity_watchdog.py)          *)
(*   - ClaudeAIService            (src/src/services/ai_service.py)         *)
(*   - CompleteCampaignGenerationService                                   *)
(*                        (src/src/services/campaign_generation_service.py)*)
(*                                                                         *)
(* Text is modelled by the four attributes the validator reads: whether    *)
(* the raw string is empty, its stripped length, its number of distinct    *)
(* lowercase words, and whether a forbidden pattern occurs in it.  The     *)
(* program's own literal strings appear with their real attributes.        *)
(***************************************************************************)
EXTENDS Naturals, Integers, Sequences, FiniteSets, TLC

VARIABLES
    now,            \* wall clock (seconds), datetime.now()
    content_cache,  \* ContentCacheService: cache path -> file written by set()
    cache_last,     \* the last ContentCacheService call and what it returned
    api,            \* ClaudeAIService._call_claude_api: the last call
    watchdog,       \* WatchdogService: what the generator client reports (component "claude")
    hashseed,       \* the process's str hash randomisation (PYTHONHASHSEED)
    run,            \* the generate_campaign call in progress (or finished)
    campaign,       \* the Campaign object of that call
    monitor,        \* WatchdogService: what generate_campaign reports (component "campaign")
    ghost,          \* history of the run, for stating the properties
    batch,          \* ImageGenerationService.generate_batch_images in progress
    integrity,      \* ContentIntegrityWatchdog: the last call and its outcome
    tasks,          \* generate_campaign calls running concurrently on one event loop
    generation_requests,  \* CampaignGenerationServiceImpl and its request repository
    image_cache,    \* ImageCacheService: files, metadata and the last call
    key_calls       \* two _get_concept_cache_key calls of one process, side by side

vars == <<now, content_cache, cache_last, api, watchdog, hashseed, run, campaign,
          monitor, ghost, batch, integrity, tasks, generation_requests, image_cache, key_calls>>

\* The variables of the services modelled first, for the actions of the others.
pipeline_vars == <<now, content_cache, cache_last, api, watchdog, hashseed, run,
                   campaign, monitor, ghost, batch>>

-----------------------------------------------------------------------------
(* Bounds of the model *)

MaxTime == 3          \* the clock stops here
MaxApiCalls == 4      \* _call_claude_api invocations explored on their own
MaxRuns == 2          \* generate_campaign calls on one service instance
MaxSections == 1      \* leading entries of sections_config that are explored

-----------------------------------------------------------------------------
(* Texts *)

\* Literal strings of the program.
FallbackResponseText == "Error generating content with Claude API"
MockResponseText     == "Mock Claude response - client not available"
ContentFailedText    == "Content generation failed"
DefaultTitle         == "Generated Campaign"
DefaultSubtitle      == "A D&D 5e Adventure"
DefaultDescription   == "A campaign generated based on your preferences"
DefaultLevelRange    == "1-5"
QualityIssueText     == "Content generation had quality issues. Please regenerate this section."
ServiceErrorText     == "Service temporarily unavailable. Please try regenerating this section later."
UnexpectedErrorText  == "An unexpected error occurred while generating this section. Please try again."
ErrorSectionText     == "Error generating <title> section"

\* Sample texts an external generator, a user or an older cache file can hold.
Empty          == ""
Blank          == "<3 blanks>"
GoodText       == "<genuine prose, 420 chars, 65 distinct words>"
MediumText     == "<genuine prose, 240 chars, 38 distinct words>"
RepeatedText   == "<one word repeated, 400 chars>"
PlaceholderDoc == "<420 chars of prose containing 'placeholder'>"
ShortApology   == "I'm sorry, I cannot help with that request."
LongApology    == "<refusal: 'I apologize, but I am not able to ...', 320 chars, 48 distinct words>"
LongTitle      == "<title, 104 chars, 15 distinct words>"
OrdinaryTitle  == "<title, 19 chars, 3 distinct words>"
GoodConceptJson     == "<JSON object: LongTitle, GoodText subtitle, GoodText description, level_range>"
OrdinaryConceptJson == "<JSON object: OrdinaryTitle, GoodText description, level_range>"
EmptyArrayJson      == "[]"
ShortNote           == "<user instructions, 32 chars, 6 distinct words>"
LowScoreJson        == "{\"overall_score\": 0.3}"
BadScoreJson        == "{\"overall_score\": 7.0}"

Absent == "<key absent>"

\* stripped: len(content.strip()); words: len(set(content.lower().split()));
\* pat: some forbidden pattern is a substring of content.lower();
\* apology: the text is an apology/refusal of the generator.
Attr(stripped, words, pat, apology) ==
    [stripped |-> stripped, words |-> words, pat |-> pat, apology |-> apology]

TextInfo ==
    (Empty                :> Attr(0, 0, FALSE, FALSE)) @@
    (Blank                :> Attr(0, 0, FALSE, FALSE)) @@
    (GoodText             :> Attr(420, 65, FALSE, FALSE)) @@
    (MediumText           :> Attr(240, 38, FALSE, FALSE)) @@
    (RepeatedText         :> Attr(400, 1, FALSE, FALSE)) @@
    (PlaceholderDoc       :> Attr(420, 60, TRUE, FALSE)) @@
    (ShortApology         :> Attr(43, 8, FALSE, TRUE)) @@
    (LongApology          :> Attr(320, 48, FALSE, TRUE)) @@
    (LongTitle            :> Attr(104, 15, FALSE, FALSE)) @@
    (OrdinaryTitle        :> Attr(19, 3, FALSE, FALSE)) @@
    (GoodConceptJson      :> Attr(1100, 90, FALSE, FALSE)) @@
    (OrdinaryConceptJson  :> Attr(520, 70, FALSE, FALSE)) @@
    (EmptyArrayJson       :> Attr(2, 1, FALSE, FALSE)) @@
    (ShortNote            :> Attr(32, 6, FALSE, FALSE)) @@
    (LowScoreJson         :> Attr(22, 2, FALSE, FALSE)) @@
    (BadScoreJson         :> Attr(22, 2, FALSE, FALSE)) @@
    (FallbackResponseText :> Attr(40, 6, FALSE, FALSE)) @@
    (MockResponseText     :> Attr(43, 7, TRUE, FALSE)) @@
    (ContentFailedText    :> Attr(25, 3, FALSE, FALSE)) @@
    (DefaultTitle         :> Attr(18, 2, FALSE, FALSE)) @@
    (DefaultSubtitle      :> Attr(18, 4, FALSE, FALSE)) @@
    (DefaultDescription   :> Attr(46, 7, FALSE, FALSE)) @@
    (DefaultLevelRange    :> Attr(3, 1, FALSE, FALSE)) @@
    (QualityIssueText     :> Attr(70, 9, FALSE, FALSE)) @@
    (ServiceErrorText     :> Attr(76, 9, FALSE, FALSE)) @@
    (UnexpectedErrorText  :> Attr(77, 11, FALSE, FALSE)) @@
    (ErrorSectionText     :> Attr(37, 4, FALSE, FALSE))

Texts == DOMAIN TextInfo

\* Python truthiness of a str: only "" is falsy.
Truthy(t) == t # Empty

-----------------------------------------------------------------------------
(* Values stored in the content cache and returned by the generator client: *)
(* None, a str, or a dict (the campaign concept).                           *)

NoFields == [title |-> Absent, subtitle |-> Absent, description |-> Absent,
             level_range |-> Absent]
None     == [t |-> "none", s |-> Empty, d |-> NoFields]
Str(s)   == [t |-> "str", s |-> s, d |-> NoFields]
Dict(d)  == [t |-> "dict", s |-> Empty, d |-> d]

\* bool(value): None, "" and {} are falsy.
TruthyValue(v) ==
    CASE v.t = "none" -> FALSE
      [] v.t = "str"  -> Truthy(v.s)
      [] OTHER        -> v.d # NoFields

DefaultConcept == [title |-> DefaultTitle, subtitle |-> DefaultSubtitle,
                   description |-> DefaultDescription,
                   level_range |-> DefaultLevelRange]
GoodConcept == [title |-> LongTitle, subtitle |-> GoodText,
                description |-> GoodText, level_range |-> DefaultLevelRange]
OrdinaryConcept == [title |-> OrdinaryTitle, subtitle |-> Absent,
                    description |-> GoodText, level_range |-> DefaultLevelRange]

-----------------------------------------------------------------------------
(* ContentIntegrityWatchdog *)

\* The container builds the watchdog with is_active=True; nothing on the
\* generation path calls set_active.
is_active == TRUE

min_section_lengths ==
    [description |-> 100, introduction |-> 200, setting |-> 300,
     background |-> 300, structure |-> 200, location |-> 200, npc |-> 150,
     encounter |-> 200, plot |-> 300, treasure |-> 150, appendix |-> 100,
     campaign_concept |-> 150, story_arc |-> 100, default |-> 100]

\* str.lower() on the category names that occur.
LowerTable == ("Introduction" :> "introduction") @@ ("SETTING" :> "setting")
Lower(s) == IF s \in DOMAIN LowerTable THEN LowerTable[s] ELSE s

\* A minimum below the length of the stand-in texts of a failed section.
MinLengthBelowStandIn(section_name) == 50

\* self.min_section_lengths.get(section_name.lower(), ...["default"])
MinLength(section_name) ==
    IF Lower(section_name) \in DOMAIN min_section_lengths
    THEN min_section_lengths[Lower(section_name)]
    ELSE min_section_lengths["default"]

MinDistinctWords == 5

\* The checks of validate_text_content in the code's order, on what it reads
\* of its argument: falsy (not content or not a str), pat (a forbidden
\* pattern occurs in content.lower()), stripped (len(content.strip())) and
\* words (len(set(content.lower().split()))).
TextVerdict(section_name, falsy, pat, stripped, words) ==
    CASE ~is_active -> "ok"
      [] falsy -> "empty"
      [] pat -> "forbidden_pattern"
      [] stripped < MinLength(section_name) -> "too_short"
      [] words < MinDistinctWords -> "no_variety"
      [] OTHER -> "ok"

\* validate_text_content: "ok" when it returns True, otherwise the reason of
\* the ContentIntegrityError it raises.  The checks run in the code's order.
ValidateTextContent(section_name, content) ==
    TextVerdict(section_name, ~Truthy(content), TextInfo[content].pat,
                TextInfo[content].stripped, TextInfo[content].words)

\* validate_text_content on a value that need not be a str
\* (not content or not isinstance(content, str) raises).
ValidateText(section_name, v) ==
    IF ~is_active THEN "ok"
    ELSE IF v.t # "str" THEN "empty"
    ELSE ValidateTextContent(section_name, v.s)

FirstFailure(verdicts) ==
    IF \E i \in 1..Len(verdicts) : verdicts[i] # "ok"
    THEN verdicts[CHOOSE i \in 1..Len(verdicts) :
                    /\ verdicts[i] # "ok"
                    /\ \A j \in 1..(i-1) : verdicts[j] = "ok"]
    ELSE "ok"

\* validate_campaign_concept: "ok" or the reason of the ContentIntegrityError.
ValidateCampaignConcept(concept) ==
    CASE ~is_active -> "ok"
      [] ~TruthyValue(concept) \/ concept.t # "dict" -> "invalid_format"
      [] \E f \in {"title", "description", "level_range"} :
             concept.d[f] = Absent -> "missing_field"
      [] OTHER ->
           FirstFailure(<<
               ValidateTextContent("concept_title", concept.d.title),
               ValidateTextContent("concept_description", concept.d.description),
               IF concept.d.subtitle # Absent
               THEN ValidateTextContent("concept_subtitle", concept.d.subtitle)
               ELSE "ok">>)

-----------------------------------------------------------------------------
(* ContentCacheService *)

CacheKey(ns, pref, id) == [ns |-> ns, pref |-> pref, id |-> id]

\* _get_cache_path: cache_dir / md5(key).json.  MD5 is taken as injective on
\* the keys that occur, so the digest is represented by the key it came from.
GetCachePath(key) == [dir |-> "cache/content", md5_of |-> key]

\* json.dump(..., default=str) followed by json.load for the values the
\* program stores: None <-> null, str <-> string, dict of str <-> object.
JsonDump(v) ==
    [json |-> CASE v.t = "none" -> "null" [] v.t = "str" -> "string"
                [] OTHER -> "object",
     s |-> v.s, d |-> v.d]
\* JSON that comes back as a str whatever was dumped.
JsonLoadAsText(doc) ==
    [t |-> "str", s |-> doc.s, d |-> doc.d]
JsonLoad(doc) ==
    [t |-> CASE doc.json = "null" -> "none" [] doc.json = "string" -> "str"
             [] OTHER -> "dict",
     s |-> doc.s, d |-> doc.d]

\* A file that open(..., 'w') truncated before the write failed.
UnreadableFile ==
    [readable |-> FALSE, content |-> JsonDump(None), timestamp |-> 0,
     ttl_seconds |-> 0, expires_at |-> 0]

CacheFile(value, ttl_seconds, t) ==
    [readable |-> TRUE, content |-> JsonDump(value), timestamp |-> t,
     ttl_seconds |-> ttl_seconds, expires_at |-> t + ttl_seconds]

\* get(): None when the file is missing or does not parse, else
\* data.get("content").  The stored expires_at is not consulted.
CacheGet(files, key) ==
    LET path == GetCachePath(key) IN
    IF path \notin DOMAIN files THEN None
    ELSE IF ~files[path].readable THEN None
    ELSE JsonLoad(files[path].content)

IoOutcomes == {"ok", "open_fails", "write_fails"}

\* set(): the files after the call.
CacheSetFiles(files, key, value, ttl_seconds, t, io) ==
    LET path == GetCachePath(key) IN
    CASE io = "ok" -> (path :> CacheFile(value, ttl_seconds, t)) @@ files
      [] io = "write_fails" -> (path :> UnreadableFile) @@ files
      [] OTHER -> files

\* set(): True when the write went through, False when it raised.
CacheSetReturns(io) == io = "ok"

\* delete(): unlink when the file exists.
CacheDeleteFiles(files, key, io) ==
    LET path == GetCachePath(key) IN
    IF io = "ok" /\ path \in DOMAIN files
    THEN [p \in DOMAIN files \ {path} |-> files[p]]
    ELSE files

CacheExists(files, key) == GetCachePath(key) \in DOMAIN files

\* is_expired(): True for a missing or unparsable file, else now > expires_at.
CacheIsExpired(files, key, t) ==
    LET path == GetCachePath(key) IN
    IF path \notin DOMAIN files THEN TRUE
    ELSE IF ~files[path].readable THEN TRUE
    ELSE t > files[path].expires_at

-----------------------------------------------------------------------------
(* WatchdogService *)

\* cost=None of track_api_call; costs are whole units otherwise.
NoCost == -1

KnownApis == {"claude", "chatgpt", "dalle"}
MetricTypes == {"token_usage", "api_latency", "cost", "error_rate",
                "quality_score", "generation_time"}

\* alert_threshold: int = 3
alert_threshold == 3

\* __init__.  metrics: how many Metric objects of each type the list holds;
\* alerts: the Alert list, oldest first; invoked: the calls that the
\* registered callbacks have received, in order.
NewWatchdog ==
    [api_calls |-> [a \in KnownApis |-> 0],
     cost_estimates |-> [a \in KnownApis \cup {"total"} |-> 0],
     metrics |-> [m \in MetricTypes |-> 0],
     error_count |-> 0,
     alerts |-> <<>>,
     alert_callbacks |-> <<>>,
     invoked |-> <<>>]

\* d[k] = v on a dict
Put(d, k, v) == [x \in DOMAIN d \cup {k} |-> IF x = k THEN v ELSE d[x]]

\* track_metric appends one Metric (every tenth one also saves the list to
\* disk, inside a try that logs any failure).
TrackMetric(w, metric_type) == [w EXCEPT !.metrics[metric_type] = @ + 1]

\* track_api_call: the call count of the API, a token and a latency metric,
\* and with a cost also a cost metric, the API's cost estimate and the total.
TrackApiCall(w, api_name, cost) ==
    LET counted == [w EXCEPT !.api_calls =
                        Put(@, api_name,
                            IF api_name \in DOMAIN @ THEN @[api_name] + 1 ELSE 1)]
        measured == TrackMetric(TrackMetric(counted, "token_usage"), "api_latency")
        own == Put(measured.cost_estimates, api_name,
                   IF api_name \in DOMAIN measured.cost_estimates
                   THEN measured.cost_estimates[api_name] + cost ELSE cost)
    IN IF cost = NoCost THEN measured
       ELSE [TrackMetric(measured, "cost") EXCEPT
                !.cost_estimates = [own EXCEPT !["total"] = @ + cost]]

\* A registered callback: whether it carries a __name__ (a function does, a
\* functools.partial or a callable object does not) and whether it raises.
Callback(named, raises) == [named |-> named, raises |-> raises]

\* The handler of a raising callback formats callback.__name__; without that
\* attribute the handler itself raises AttributeError, which leaves the loop.
Escapes(cb) == cb.raises /\ ~cb.named

\* How many callbacks the loop of _create_alert reaches.
InvokedCount(callbacks) ==
    IF \E i \in 1..Len(callbacks) : Escapes(callbacks[i])
    THEN CHOOSE i \in 1..Len(callbacks) :
            /\ Escapes(callbacks[i])
            /\ \A j \in 1..(i - 1) : ~Escapes(callbacks[j])
    ELSE Len(callbacks)

\* _create_alert raises exactly when a handler of its loop did.
CreateAlertRaises(w) ==
    \E i \in 1..Len(w.alert_callbacks) : Escapes(w.alert_callbacks[i])

\* _create_alert appends the Alert, then calls the callbacks in list order.
CreateAlert(w, severity, source) ==
    LET n == Len(w.alerts) + 1 IN
    [w EXCEPT
       !.alerts = Append(@, [severity |-> severity, source |-> source]),
       !.invoked = @ \o [i \in 1..InvokedCount(w.alert_callbacks) |->
                            [alert |-> n, callback |-> i]]]

VerifierMinLength == 10

\* ContentVerifier.verify_content for content_type "campaign_content":
\* too short, a fallback phrase ("I'm sorry, I cannot", "I apologize, but I",
\* ...) or a placeholder marker makes the content invalid.
VerifyContent(content) ==
    /\ Truthy(content)
    /\ TextInfo[content].stripped >= VerifierMinLength
    /\ ~TextInfo[content].apology
    /\ content # PlaceholderDoc

\* verify_ai_response: on invalid content the error count, an error metric
\* and an alert whose severity depends on the error count; on valid content
\* the error count is reset.
VerifyAiResponse(w, content, source) ==
    IF ~VerifyContent(content)
    THEN CreateAlert(TrackMetric([w EXCEPT !.error_count = @ + 1], "error_rate"),
                     IF w.error_count + 1 >= alert_threshold
                     THEN "critical" ELSE "warning",
                     source)
    ELSE TrackMetric([w EXCEPT !.error_count = 0], "error_rate")

\* score < 0.5, in tenths
QualityFloor == 5

\* track_quality_score without the low-score alert.
TrackQualityScoreSilent(w, score) == TrackMetric(w, "quality_score")

\* track_quality_score: one quality metric, and a WARNING alert from
\* "quality_checker" for a score under 0.5.
TrackQualityScore(w, score) ==
    IF score < QualityFloor
    THEN CreateAlert(TrackMetric(w, "quality_score"), "warning", "quality_checker")
    ELSE TrackMetric(w, "quality_score")

-----------------------------------------------------------------------------
(* ClaudeAIService *)

\* What client.messages.create does: it returns a response whose first
\* content block holds a text (no block at all gives ""), or it raises.
ExtResponse(text) == [kind |-> "response", text |-> text, err |-> "none"]
ExtRaise(err)     == [kind |-> "raise", text |-> Empty, err |-> err]

TransientErrors == {"timeout", "network"}
ExtErrors == TransientErrors \cup {"api_error"}

ExtTexts == {Empty, Blank, GoodText, MediumText, RepeatedText, PlaceholderDoc,
             ShortApology, LongApology, GoodConceptJson, OrdinaryConceptJson,
             EmptyArrayJson}

ExtOutcomes == {ExtResponse(t) : t \in ExtTexts} \cup {ExtRaise(e) : e \in ExtErrors}

ClientValidationThreshold == 50

\* Lines 407-415: substantial content is validated as category "ai_response".
ClientRejects(content) ==
    /\ Truthy(content)
    /\ is_active
    /\ TextInfo[content].stripped > ClientValidationThreshold
    /\ ValidateTextContent("ai_response", content) # "ok"

\* _call_claude_api.  content: the "content" of the JSON string it returns;
\* raises: the exception that leaves the call ("none": it returns);
\* ext_calls: how often client.messages.create was called; path: the branch.
\* Both the external failure and the integrity rejection are raised inside
\* the try block whose handler returns the fallback response.
CallClaudeApi(has_client, ext) ==
    CASE ~has_client ->
           [content |-> MockResponseText, raises |-> "none", ext_calls |-> 0,
            path |-> "no_client"]
      [] has_client /\ ext.kind = "raise" ->
           [content |-> FallbackResponseText, raises |-> "none", ext_calls |-> 1,
            path |-> "call_failed"]
      [] has_client /\ ext.kind = "response" /\ ClientRejects(ext.text) ->
           [content |-> FallbackResponseText, raises |-> "none", ext_calls |-> 1,
            path |-> "rejected"]
      [] OTHER ->
           [content |-> ext.text, raises |-> "none", ext_calls |-> 1,
            path |-> "success"]

\* (input_tokens * 3 + output_tokens * 15) / 1000000 of a response, in
\* whole units; the mock and the failed call are tracked with cost 0.
ResponseCost == 1

\* verify_ai_response raises inside the try block: its alert reached a
\* callback whose handler raises.
VerifyRaises(w, content) ==
    Truthy(content) /\ ~VerifyContent(content) /\ CreateAlertRaises(w)

\* The except clause without its track_api_call.
AlertFailedCall(w) == CreateAlert(w, "error", "claude_api")

\* The except clause: the failed call is tracked, then an ERROR alert.
TrackFailedCall(w) ==
    CreateAlert(TrackApiCall(w, "claude", 0), "error", "claude_api")

\* The monitoring calls of _call_claude_api on each of its branches.  The
\* calls of the success branch are inside the try block, so an exception of
\* verify_ai_response continues in the except clause.
CallClaudeApiWatchdog(w, has_client, ext) ==
    LET r == CallClaudeApi(has_client, ext) IN
    CASE r.path = "no_client" -> TrackApiCall(w, "claude", 0)
      [] r.path = "success" ->
           IF Truthy(r.content)
           THEN LET verified == VerifyAiResponse(
                                    TrackApiCall(w, "claude", ResponseCost),
                                    r.content, "claude")
                IN IF VerifyRaises(w, r.content) THEN TrackFailedCall(verified)
                   ELSE verified
           ELSE TrackApiCall(w, "claude", ResponseCost)
      [] OTHER -> TrackFailedCall(w)

\* _call_claude_api with the watchdog it reports to: an exception of
\* _create_alert in the except clause leaves the call.
CallClaudeApiMonitored(w, has_client, ext) ==
    LET r == CallClaudeApi(has_client, ext) IN
    IF /\ CreateAlertRaises(w)
       /\ \/ r.path \in {"call_failed", "rejected"}
          \/ r.path = "success" /\ VerifyRaises(w, r.content)
    THEN [content |-> Empty, raises |-> "AttributeError", ext_calls |-> r.ext_calls,
          path |-> r.path]
    ELSE r

\* _parse_section_content_response on the JSON string of _call_claude_api:
\* the content when there is one, else "Content generation failed".
ParseSectionContentResponse(r) ==
    IF Truthy(r.content) THEN r.content ELSE ContentFailedText

\* generate_introduction, generate_setting, ...: the str they return.
GenerateSectionContent(has_client, ext) ==
    ParseSectionContentResponse(CallClaudeApi(has_client, ext))

\* _parse_campaign_concept_response: a JSON object is loaded, any other text
\* goes through _extract_campaign_concept_from_text, which fills the defaults
\* for every key it finds no "TITLE:"-style line for.
ParseCampaignConceptResponse(r) ==
    CASE r.content = GoodConceptJson -> GoodConcept
      [] r.content = OrdinaryConceptJson -> OrdinaryConcept
      [] OTHER -> DefaultConcept

Return(v)  == [kind |-> "return", value |-> v, err |-> "none"]
Raise(err) == [kind |-> "raise", value |-> None, err |-> err]

\* generate_campaign_concept: the concept, or the ContentIntegrityError of
\* validate_campaign_concept re-raised.
GenerateCampaignConcept(has_client, ext) ==
    LET concept == Dict(ParseCampaignConceptResponse(CallClaudeApi(has_client, ext))) IN
    IF TruthyValue(concept) /\ is_active /\ ValidateCampaignConcept(concept) # "ok"
    THEN Raise("ContentIntegrityError")
    ELSE Return(concept)

-----------------------------------------------------------------------------
(* CompleteCampaignGenerationService: requests, preferences, cache keys *)

\* The generate_campaign arguments that reach the cache keys, the sections
\* and the final validation.
Request(theme, custom_instructions, mode) ==
    [theme |-> theme, difficulty |-> "medium", duration |-> "medium",
     custom_instructions |-> custom_instructions, mode |-> mode]

Requests ==
    {Request("fantasy", Absent, "sample"),
     Request("fantasy", MediumText, "production"),
     Request("horror", ShortNote, "sample")}

\* _create_preferences_from_params: "any" leaves a preference unset; the
\* other enum preferences and specific_elements are never set here.
CreatePreferencesFromParams(req) ==
    [theme |-> IF req.theme # "any" THEN req.theme ELSE Absent,
     difficulty |-> IF req.difficulty # "any" THEN req.difficulty ELSE Absent,
     setting |-> Absent, character_focus |-> Absent, npc_style |-> Absent,
     gameplay_balance |-> Absent,
     story_length |-> IF req.duration # "any" THEN req.duration ELSE Absent,
     story_tone |-> Absent,
     specific_elements |-> <<>>,
     freeform_input |-> req.custom_instructions]

\* hash(str) of this process: 0 for "", otherwise a value that depends on the
\* process's hash seed.
HashSeeds == {"seed_a", "seed_b"}
PyHashTable ==
    ("seed_a" :> ((MediumText :> 48213) @@ (ShortNote :> 7731))) @@
    ("seed_b" :> ((MediumText :> 17731) @@ (ShortNote :> 7731)))
PyHash(seed, text) == IF text = Empty THEN 0 ELSE PyHashTable[seed][text]

HashModulus == 10000

PrefPart(tag, value) == IF value # Absent THEN <<tag, value>> ELSE <<>>

\* Lines 474-490: pref_str, one "_tag_value" part per enum preference set.
PrefStr(preferences) ==
    PrefPart("_theme_", preferences.theme) \o
    PrefPart("_diff_", preferences.difficulty) \o
    PrefPart("_set_", preferences.setting) \o
    PrefPart("_focus_", preferences.character_focus) \o
    PrefPart("_npc_", preferences.npc_style) \o
    PrefPart("_balance_", preferences.gameplay_balance) \o
    PrefPart("_length_", preferences.story_length) \o
    PrefPart("_tone_", preferences.story_tone)

\* _get_concept_cache_key.  specific_elements is empty on this path, so
\* elements_str + freeform_str is the free-form input ("" for None).
GetConceptCacheKey(preferences, seed) ==
    LET freeform_str == IF preferences.freeform_input # Absent
                        THEN preferences.freeform_input ELSE Empty
    IN CacheKey("campaign_concept", PrefStr(preferences),
                PyHash(seed, freeform_str) % HashModulus)

\* cache_key = f"section_{section_id}_{campaign.id}"
GetSectionCacheKey(section_id, campaign_id) ==
    CacheKey("section", <<section_id>>, campaign_id)

CacheTtlSeconds == 3600

\* sections_config of _generate_all_sections: (section_id, title) per mode.
SectionsConfig(mode) ==
    IF mode = "sample"
    THEN << <<"introduction", "Introduction">>, <<"setting", "The World">>,
            <<"background", "Adventure Background">>,
            <<"structure", "Campaign Structure">>,
            <<"locations", "Key Locations">>, <<"npcs", "Key NPCs">> >>
    ELSE << <<"introduction", "Introduction">>, <<"setting", "The World">>,
            <<"background", "Adventure Background">>,
            <<"structure", "Campaign Structure">>,
            <<"locations", "Locations">>, <<"npcs", "Non-Player Characters">>,
            <<"encounters", "Monsters & Encounters">>,
            <<"treasures", "Treasures & Rewards">>,
            <<"appendices", "Appendices">> >>

\* The sections the model walks through: the first MaxSections of the list.
NumSections(mode) ==
    IF Len(SectionsConfig(mode)) < MaxSections
    THEN Len(SectionsConfig(mode)) ELSE MaxSections

-----------------------------------------------------------------------------
(* CompleteCampaignGenerationService: the generator as generate_campaign sees it *)

\* The ai_service handed to the constructor is either the ClaudeAIService of
\* the container, whose behaviour follows from what the external API does, or
\* another AIService implementation, which may return or raise anything.
ViaClaude(ext) == [via |-> "claude", ext |-> ext, out |-> Return(None)]
Injected(out)  == [via |-> "injected", ext |-> ExtRaise("api_error"), out |-> out]

RunExtTexts == {Empty, GoodText, MediumText, PlaceholderDoc, ShortApology,
                LongApology, GoodConceptJson, EmptyArrayJson}
RunExtOutcomes == {ExtResponse(t) : t \in RunExtTexts} \cup {ExtRaise("timeout")}

\* Replies to a section prompt: the JSON documents are left to the calls that
\* parse them.
SectionExtOutcomes ==
    {ExtResponse(t) : t \in RunExtTexts \ {GoodConceptJson, EmptyArrayJson}}
    \cup {ExtRaise("timeout")}

InjectedOutcomes ==
    {Return(Str(Empty)), Return(Dict(OrdinaryConcept)),
     Raise("ExternalServiceError"), Raise("Exception")}

Generators == {ViaClaude(e) : e \in RunExtOutcomes} \cup
              {Injected(o) : o \in InjectedOutcomes}
SectionGenerators == {ViaClaude(e) : e \in SectionExtOutcomes} \cup
                     {Injected(o) : o \in InjectedOutcomes}

\* ai_service.generate_campaign_concept(...)
ConceptOutcome(has_client, g) ==
    IF g.via = "claude" THEN GenerateCampaignConcept(has_client, g.ext) ELSE g.out

\* generator_func(campaign_data, custom_instructions, mode)
SectionOutcome(has_client, g) ==
    IF g.via = "claude" THEN Return(Str(GenerateSectionContent(has_client, g.ext)))
    ELSE g.out

\* What the generator replied with, as far as the run's history records it.
ReplyKind(has_client, g) ==
    IF g.via = "claude" /\ has_client /\ g.ext.kind = "response"
       /\ TextInfo[g.ext.text].apology
    THEN "apology" ELSE "other"

NoteReply(seen, kind) ==
    IF seen = "none" THEN kind ELSE IF seen = kind THEN seen ELSE "other"

-----------------------------------------------------------------------------
(* CompleteCampaignGenerationService: state of a generate_campaign call *)

NoRequest == Request(Absent, Absent, Absent)
NoResult == [kind |-> "none", id |-> 0, err |-> "none"]
RunReturn(id) == [kind |-> "return", id |-> id, err |-> "none"]
RunRaise(err) == [kind |-> "raise", id |-> 0, err |-> err]

NoRun == [pc |-> "idle", id |-> 0, req |-> NoRequest, concept |-> None,
          arcs |-> 0, result |-> NoResult, cancelled |-> FALSE]

NoCampaign == [id |-> 0, name |-> Absent, description |-> Absent,
               status |-> "none", sections |-> <<>>, cover |-> FALSE,
               freeform_input |-> Absent, quality_score |-> 0]

\* score: the composite score of the current call, once computed.
NoScore == -1

\* keys, writes, hits, gen_calls, stale, replies, final: of the current call;
\* accepted: the keys that any call wrote; prev: the preceding call, with
\* the keys accepted by the time it ended.
NoHistory == [req |-> NoRequest, keys |-> {}, accepted |-> {}]
NewGhost == [keys |-> {}, writes |-> {}, hits |-> {}, gen_calls |-> {},
             stale |-> {}, replies |-> "none", final |-> "none",
             accepted |-> {}, prev |-> NoHistory, score |-> NoScore]

\* The WatchdogService that generate_campaign reports to, as constructed.
NewMonitor == NewWatchdog

\* The except clause of generate_campaign: one ERROR_RATE metric, then re-raise.
RunFails(err) ==
    /\ run' = [run EXCEPT !.pc = "failed", !.result = RunRaise(err)]
    /\ monitor' = TrackMetric(monitor, "error_rate")

-----------------------------------------------------------------------------
(* generate_campaign, lines 74-113: new campaign id and the concept phase *)

Preferences == CreatePreferencesFromParams(run.req)
ConceptKey == GetConceptCacheKey(Preferences, hashseed)

Entry(key, value) == [key |-> key, value |-> value]

\* campaign_id = str(uuid4()): an id no earlier call had.
StartGenerate(req) ==
    /\ run.pc \in {"idle", "done", "failed", "cancelled"}
    /\ run.id < MaxRuns
    /\ run' = [NoRun EXCEPT !.pc = "concept", !.id = run.id + 1, !.req = req]
    /\ campaign' = NoCampaign
    /\ ghost' = [NewGhost EXCEPT
                   !.accepted = ghost.accepted,
                   !.prev = [req |-> run.req, keys |-> ghost.keys,
                             accepted |-> ghost.accepted]]
    /\ UNCHANGED <<now, content_cache, cache_last, api, watchdog, hashseed, batch, integrity, tasks, generation_requests, image_cache, key_calls, monitor>>

\* Lines 90-95: a cached concept is used when it is truthy and validates.
CachedConceptUsable(cached) ==
    TruthyValue(cached) /\ ValidateCampaignConcept(cached) = "ok"

\* Lines 102-108: the generated concept is rejected.
ConceptValidationRaises(concept) == ValidateCampaignConcept(concept) # "ok"

ConceptPhase(g, io) ==
    /\ run.pc = "concept"
    /\ LET cached == CacheGet(content_cache, ConceptKey)
           out == ConceptOutcome(api.client, g)
           noted == [ghost EXCEPT !.keys = @ \cup {ConceptKey}]
           asked == [noted EXCEPT
                       !.gen_calls = @ \cup {ConceptKey},
                       !.replies = NoteReply(@, ReplyKind(api.client, g)),
                       !.stale = IF TruthyValue(cached) THEN @ \cup {ConceptKey} ELSE @]
       IN
       IF CachedConceptUsable(cached)
       THEN /\ run' = [run EXCEPT !.pc = "arcs", !.concept = cached]
            /\ ghost' = [noted EXCEPT !.hits = @ \cup {Entry(ConceptKey, cached)}]
            /\ UNCHANGED <<content_cache, monitor>>
       ELSE IF \/ out.kind = "raise"
               \/ ~TruthyValue(out.value)
               \/ ConceptValidationRaises(out.value)
       THEN \* every exception of lines 98-110 leaves as ExternalServiceError
            /\ RunFails("ExternalServiceError")
            /\ ghost' = asked
            /\ UNCHANGED content_cache
       ELSE /\ content_cache' = CacheSetFiles(content_cache, ConceptKey, out.value,
                                              CacheTtlSeconds, now, io)
            /\ run' = [run EXCEPT !.pc = "arcs", !.concept = out.value]
            /\ ghost' = IF CacheSetReturns(io)
                        THEN [asked EXCEPT
                                !.writes = @ \cup {Entry(ConceptKey, out.value)},
                                !.accepted = @ \cup {ConceptKey}]
                        ELSE asked
            /\ UNCHANGED monitor
    /\ UNCHANGED <<now, cache_last, api, watchdog, hashseed, batch, integrity, tasks, generation_requests, image_cache, key_calls, campaign>>

-----------------------------------------------------------------------------
(* generate_campaign, lines 115-180: story arcs, NPCs, locations, the       *)
(* Campaign object and the cover image                                      *)

\* _generate_story_arcs: a str becomes one arc, a list is taken as it is
\* (ClaudeAIService returns [] for "[]" and one arc for any other text),
\* anything else gives [], and an exception gives the one-arc stand-in.
StoryArcCount(has_client, g) ==
    IF g.via = "claude"
    THEN IF CallClaudeApi(has_client, g.ext).content = EmptyArrayJson THEN 0 ELSE 1
    ELSE IF g.out.kind = "raise" THEN 1
    ELSE IF g.out.value.t = "str" THEN 1 ELSE 0

GenerateStoryArcs(g) ==
    /\ run.pc = "arcs"
    /\ run' = [run EXCEPT !.pc = "npcs", !.arcs = StoryArcCount(api.client, g)]
    /\ ghost' = [ghost EXCEPT !.replies = NoteReply(@, ReplyKind(api.client, g))]
    /\ UNCHANGED <<now, content_cache, cache_last, api, watchdog, hashseed, batch, integrity, tasks, generation_requests, image_cache, key_calls, campaign,
                   monitor>>

\* _generate_key_npcs always ends with at least two NPCs.
GenerateKeyNpcs(g) ==
    /\ run.pc = "npcs"
    /\ run' = [run EXCEPT !.pc = "locations"]
    /\ ghost' = [ghost EXCEPT !.replies = NoteReply(@, ReplyKind(api.client, g))]
    /\ UNCHANGED <<now, content_cache, cache_last, api, watchdog, hashseed, batch, integrity, tasks, generation_requests, image_cache, key_calls, campaign,
                   monitor>>

\* _generate_key_locations (always at least two), then Campaign(...), whose
\* _validate raises ValueError for an empty story_arcs list.
CreateCampaign(g) ==
    /\ run.pc = "locations"
    /\ ghost' = [ghost EXCEPT !.replies = NoteReply(@, ReplyKind(api.client, g))]
    /\ IF run.arcs < 1
       THEN /\ RunFails("ValueError")
            /\ UNCHANGED campaign
       ELSE /\ run' = [run EXCEPT !.pc = "cover"]
            /\ campaign' = [NoCampaign EXCEPT
                              !.id = run.id,
                              !.name = run.concept.d.title,
                              !.description = run.concept.d.description,
                              !.status = "generating",
                              !.freeform_input = Preferences.freeform_input]
            /\ UNCHANGED monitor
    /\ UNCHANGED <<now, content_cache, cache_last, api, watchdog, hashseed, batch, integrity, tasks, generation_requests, image_cache, key_calls>>

CoverOutcomes == {"image", "no_image", "raises"}

\* Lines 161-180: image cache, then image_service.generate_cover_image, whose
\* exceptions are not caught here.
CoverImage(outcome) ==
    /\ run.pc = "cover"
    /\ IF outcome = "raises"
       THEN /\ RunFails("Exception")
            /\ UNCHANGED campaign
       ELSE /\ run' = [run EXCEPT !.pc = "sections"]
            /\ campaign' = [campaign EXCEPT !.cover = (outcome = "image")]
            /\ UNCHANGED monitor
    /\ UNCHANGED <<now, content_cache, cache_last, api, watchdog, hashseed, batch, integrity, tasks, generation_requests, image_cache, key_calls, ghost>>

-----------------------------------------------------------------------------
(* _generate_all_sections and _generate_section_with_cache *)

Section(section_id, title, content, tag, cached) ==
    [section_id |-> section_id, title |-> title, content |-> content,
     tag |-> tag, cached |-> cached]

\* Lines 530-546: a cached str is served when it validates.
CachedSectionUsable(section_id, cached) ==
    /\ TruthyValue(cached)
    /\ cached.t = "str"
    /\ ValidateTextContent(section_id, cached.s) = "ok"

\* A section step that never rejects what the generator returned.
SectionValidationSkipped(section_id, content) == FALSE

\* Lines 549-554: truthy generated content is rejected by the validator.
SectionValidationRaises(section_id, content) ==
    TruthyValue(content) /\ ValidateText(section_id, content) # "ok"

\* _generate_section_with_cache: the exception that leaves it ("none" when it
\* returns), the section it returns, whether the generator was called and
\* whether content_cache.set was called.
GenerateSectionWithCache(files, campaign_id, section_id, title, out) ==
    LET cached == CacheGet(files, GetSectionCacheKey(section_id, campaign_id))
        base == [raises |-> "none",
                 section |-> Section(section_id, title, Str(ErrorSectionText),
                                     "none", FALSE),
                 called |-> TRUE, sets |-> FALSE, hit |-> FALSE]
    IN
    CASE CachedSectionUsable(section_id, cached) ->
           [base EXCEPT !.section = Section(section_id, title, cached, "none", TRUE),
                        !.called = FALSE, !.hit = TRUE]
      [] ~CachedSectionUsable(section_id, cached) /\ out.kind = "raise" ->
           [base EXCEPT !.raises = out.err]
      [] ~CachedSectionUsable(section_id, cached) /\ out.kind # "raise"
         /\ SectionValidationRaises(section_id, out.value) ->
           [base EXCEPT !.raises = "ContentIntegrityError"]
      [] OTHER ->
           IF TruthyValue(out.value)
           THEN [base EXCEPT !.section = Section(section_id, title, out.value,
                                                 "none", FALSE),
                             !.sets = TRUE]
           ELSE base

\* ContentIntegrityError is a ContentQualityError.
IsContentQualityError(err) == err \in {"ContentQualityError", "ContentIntegrityError"}

\* Lines 330-372: the section that one pass of the loop adds to the campaign.
AddedSection(section_id, title, r) ==
    LET raised ==
            IF r.raises # "none" THEN r.raises
            ELSE IF r.section.content.t # "str" THEN "AttributeError"
            ELSE IF Truthy(r.section.content.s)
                    /\ TextInfo[r.section.content.s].stripped > 0 THEN "none"
            ELSE "ContentQualityError"
    IN
    CASE raised = "none" -> r.section
      [] IsContentQualityError(raised) ->
           Section(section_id, title, Str(QualityIssueText), "quality_warning", FALSE)
      [] raised = "ExternalServiceError" ->
           Section(section_id, title, Str(ServiceErrorText), "service_error", FALSE)
      [] OTHER ->
           Section(section_id, title, Str(UnexpectedErrorText), "error", FALSE)

\* What the file system does to the writes of a run: the write goes through,
\* or open(path, 'w') raises and set() returns False.
RunIoOutcomes == {"ok", "open_fails"}

\* One pass of the loop over sections_config.
GenerateSection(g, io) ==
    /\ run.pc = "sections"
    /\ Len(campaign.sections) < NumSections(run.req.mode)
    /\ LET cfg == SectionsConfig(run.req.mode)[Len(campaign.sections) + 1]
           section_id == cfg[1]
           title == cfg[2]
           key == GetSectionCacheKey(section_id, campaign.id)
           cached == CacheGet(content_cache, key)
           r == GenerateSectionWithCache(content_cache, campaign.id, section_id, title,
                                         SectionOutcome(api.client, g))
           section == AddedSection(section_id, title, r)
           wrote == r.sets /\ CacheSetReturns(io)
       IN
       /\ campaign' = [campaign EXCEPT !.sections = Append(@, section)]
       /\ content_cache' =
              IF r.sets
              THEN CacheSetFiles(content_cache, key, r.section.content,
                                 CacheTtlSeconds, now, io)
              ELSE content_cache
       /\ ghost' = [ghost EXCEPT
              !.keys = @ \cup {key},
              !.hits = IF r.hit THEN @ \cup {Entry(key, cached)} ELSE @,
              !.gen_calls = IF r.called THEN @ \cup {key} ELSE @,
              !.replies = IF r.called
                          THEN NoteReply(@, ReplyKind(api.client, g)) ELSE @,
              !.stale = IF TruthyValue(cached) /\ ~r.hit THEN @ \cup {key} ELSE @,
              !.writes = IF wrote THEN @ \cup {Entry(key, r.section.content)} ELSE @,
              !.accepted = IF wrote THEN @ \cup {key} ELSE @]
    /\ UNCHANGED <<now, cache_last, api, watchdog, hashseed, batch, integrity, tasks, generation_requests, image_cache, key_calls, run, monitor>>

\* _generate_section_images: its exceptions are caught, and the images it
\* appends carry no "prompt", so nothing the final validation reads changes.
GenerateSectionImages ==
    /\ run.pc = "sections"
    /\ Len(campaign.sections) = NumSections(run.req.mode)
    /\ run' = [run EXCEPT !.pc = "final"]
    /\ UNCHANGED <<now, content_cache, cache_last, api, watchdog, hashseed, batch, integrity, tasks, generation_requests, image_cache, key_calls, campaign,
                   monitor, ghost>>

-----------------------------------------------------------------------------
(* generate_campaign, lines 188-217: final validation, status, score *)

\* A final pass that accepts every campaign.
ValidateEntireCampaignLenient(c) == "ok"

\* validate_entire_campaign: "ok" or the reason of the first failure.
ValidateEntireCampaign(c) ==
    IF ~is_active THEN "ok"
    ELSE FirstFailure(
           <<ValidateTextContent("campaign_title", c.name),
             ValidateTextContent("campaign_description", c.description)>> \o
           [i \in 1..Len(c.sections) |->
               ValidateText(c.sections[i].section_id, c.sections[i].content)] \o
           <<IF c.freeform_input # Absent /\ Truthy(c.freeform_input)
             THEN ValidateTextContent("player_input", c.freeform_input)
             ELSE "ok">>)

FinalValidation ==
    /\ run.pc = "final"
    /\ IF ValidateEntireCampaign(campaign) # "ok"
       THEN /\ RunFails("ContentIntegrityError")
            /\ ghost' = [ghost EXCEPT !.final = "failed"]
            /\ UNCHANGED campaign
       ELSE /\ run' = [run EXCEPT !.pc = "score"]
            /\ campaign' = [campaign EXCEPT !.status = "completed"]
            /\ ghost' = [ghost EXCEPT !.final = "passed"]
            /\ UNCHANGED monitor
    /\ UNCHANGED <<now, content_cache, cache_last, api, watchdog, hashseed, batch, integrity, tasks, generation_requests, image_cache, key_calls>>

\* Scores are kept in tenths: 35 is 3.5.
DefaultScore == 35
QualityScoreMax == 50

ScoreGenerators ==
    {ViaClaude(ExtResponse(t)) : t \in {GoodText, LongApology, LowScoreJson, BadScoreJson}}
    \cup {ViaClaude(ExtRaise("timeout")), Injected(Raise("Exception"))}

\* _calculate_overall_quality_score: validation_result.get("overall_score",
\* 3.5), and 3.5 when anything raises.
CalculateOverallQualityScore(has_client, g) ==
    IF g.via # "claude" THEN DefaultScore
    ELSE LET content == CallClaudeApi(has_client, g.ext).content IN
         CASE content = LowScoreJson -> 3
           [] content = BadScoreJson -> 70
           [] OTHER -> DefaultScore

\* Lines 197-217: QualityScore(final_score) raises ValueError outside 0..5;
\* otherwise two metrics, an alert for a score under the floor, and the id.
CalculateScore(g) ==
    /\ run.pc = "score"
    /\ LET final_score == CalculateOverallQualityScore(api.client, g) IN
       /\ ghost' = [ghost EXCEPT !.replies = NoteReply(@, ReplyKind(api.client, g)),
                                 !.score = final_score]
       /\ IF final_score > QualityScoreMax
          THEN /\ RunFails("ValueError")
               /\ UNCHANGED campaign
          ELSE /\ campaign' = [campaign EXCEPT !.quality_score = final_score]
               /\ monitor' = TrackQualityScore(TrackMetric(monitor, "generation_time"),
                                                final_score)
               /\ run' = [run EXCEPT !.pc = "done", !.result = RunReturn(run.id)]
    /\ UNCHANGED <<now, content_cache, cache_last, api, watchdog, hashseed, batch, integrity, tasks, generation_requests, image_cache, key_calls>>

-----------------------------------------------------------------------------
(* ImageGenerationService.generate_batch_images *)

\* asyncio.Semaphore(3)
SemaphoreLimit == 3

\* No batch call yet.  tasks: the state of limited_generate for each prompt;
\* semaphore: the value of the asyncio.Semaphore; results: what gather
\* returned, once it has.
NoBatch == [pc |-> "idle", calls |-> 0, tasks |-> <<>>, semaphore |-> 0,
            results |-> <<>>]

\* The external image requests that are being awaited.
InFlight(b) == Cardinality({i \in 1..Len(b.tasks) : b.tasks[i] = "in_flight"})

-----------------------------------------------------------------------------
(* Cancellation of the task that runs generate_campaign *)

\* The phases in which generate_campaign is suspended in an await of the
\* generator or of the image service.  The awaits of the content cache do
\* not suspend (a fresh asyncio.Lock, synchronous file access), and the final
\* validation is synchronous.
AwaitPhases == {"concept", "arcs", "npcs", "locations", "cover", "sections", "score"}

\* `except Exception` and every class the handlers name.
ExceptionCatchesAll(err) == TRUE

\* asyncio.CancelledError derives from BaseException, so no `except
\* Exception` and no handler for a DomainError subclass catches it.
ExceptionCatches(err) == err # "CancelledError"

\* task.cancel(): CancelledError is thrown into the await at which the task
\* is suspended.  Uncaught, it leaves generate_campaign past its except
\* clause (no error metric); a handler that caught it would let the run go on.
Cancel ==
    /\ run.pc \in AwaitPhases
    /\ ~run.cancelled
    /\ run' = IF ExceptionCatches("CancelledError")
              THEN [run EXCEPT !.cancelled = TRUE]
              ELSE [run EXCEPT !.cancelled = TRUE, !.pc = "cancelled",
                               !.result = RunRaise("CancelledError")]
    /\ UNCHANGED <<now, content_cache, cache_last, api, watchdog, hashseed, batch, integrity, tasks, generation_requests, image_cache, key_calls, campaign,
                   monitor, ghost>>

-----------------------------------------------------------------------------
(* The other services before their first call *)

NoIntegrityCall == [op |-> "none"]
NoTasks == <<>>
\* status, trail, campaign_id: per request row of the repository, trail
\* being the statuses the row has had; saved: the requests whose campaign
\* campaign_repo.save committed; pc, request_id, result: the call in progress.
NoGenerationRequests ==
    [pc |-> "idle", request_id |-> 0, status |-> <<>>, trail |-> <<>>,
     campaign_id |-> <<>>, saved |-> {}, result |-> "none"]
\* files: the cache keys whose .png exists in cache/images; metadata: the
\* dict self.metadata; ticks: the clock; last: the last call.
NoImageCall ==
    [op |-> "none", key |-> <<>>, ret |-> "None", existed |-> FALSE,
     had_entry |-> FALSE, valid |-> FALSE, matched |-> FALSE,
     file_after |-> FALSE, entry_after |-> FALSE]
NoImageCache == [files |-> {}, metadata |-> <<>>, ticks |-> 0, last |-> NoImageCall]
NoKeyCalls == [op |-> "none"]

-----------------------------------------------------------------------------
(* The service after construction, and generate_campaign as a state machine *)

NoCacheCall == [op |-> "none", key |-> CacheKey("none", <<>>, 0), arg |-> None,
                ret |-> None, ok |-> FALSE, at |-> 0, follows_set |-> FALSE,
                was_expired |-> FALSE]

NoApiCall == [op |-> "none", ext |-> ExtRaise("api_error"),
              retry |-> ExtRaise("api_error"),
              r |-> [content |-> Empty, raises |-> "none", ext_calls |-> 0,
                     path |-> "none"],
              out |-> Return(None), tracked |-> 0]

\* The key a deployment was given, and the one the container substitutes.
RealKey == "sk-ant-key"
MockKey == "mock-key"

NewApi(has_client) ==
    [client |-> has_client, calls |-> 0, last |-> NoApiCall, api_key |-> RealKey]

\* _initialize_core_services: os.getenv("ANTHROPIC_API_KEY") is the key when
\* it is set and non-empty; otherwise a warning is logged and the service is
\* built with "mock-key".  No branch raises.
EnvKeys == {Absent, Empty, RealKey}
InitializeCoreServices(claude_key, has_client) ==
    [NewApi(has_client) EXCEPT
        !.api_key = IF claude_key # Absent /\ Truthy(claude_key)
                    THEN claude_key ELSE MockKey]

\* What client.messages.create can do for this service: a request signed
\* with "mock-key" is refused by the API, which the client raises as an
\* API error.
Available(generators) ==
    IF api.api_key = MockKey
    THEN {ViaClaude(ExtRaise("api_error"))}
    ELSE generators

\* cache/content outlives the process (mkdir(exist_ok=True) keeps what is
\* there): it is empty, or it holds a concept that an earlier version of the
\* program stored under the key of a request.
StaleConceptFile ==
    GetCachePath(GetConceptCacheKey(
        CreatePreferencesFromParams(Request("fantasy", Absent, "sample")), "seed_a"))
    :> CacheFile(Dict(OrdinaryConcept), CacheTtlSeconds, 0)

InitialCaches == {<<>>, StaleConceptFile}

Init ==
    /\ now = 0
    /\ content_cache \in InitialCaches
    /\ cache_last = NoCacheCall
    /\ api \in {InitializeCoreServices(k, c) : k \in EnvKeys, c \in BOOLEAN}
    /\ watchdog = NewWatchdog
    /\ hashseed \in HashSeeds
    /\ batch = NoBatch
    /\ integrity = NoIntegrityCall
    /\ tasks = NoTasks
    /\ generation_requests = NoGenerationRequests
    /\ image_cache = NoImageCache
    /\ key_calls = NoKeyCalls
    /\ run = NoRun
    /\ campaign = NoCampaign
    /\ monitor = NewMonitor
    /\ ghost = NewGhost

Next ==
    \/ \E req \in Requests : StartGenerate(req)
    \/ \E g \in Available(Generators), io \in RunIoOutcomes : ConceptPhase(g, io)
    \/ \E g \in Available(Generators) : GenerateStoryArcs(g)
    \/ \E g \in Available(Generators) : GenerateKeyNpcs(g)
    \/ \E g \in Available(Generators) : CreateCampaign(g)
    \/ \E outcome \in CoverOutcomes : CoverImage(outcome)
    \/ \E g \in Available(SectionGenerators), io \in RunIoOutcomes : GenerateSection(g, io)
    \/ GenerateSectionImages
    \/ FinalValidation
    \/ \E g \in Available(ScoreGenerators) : CalculateScore(g)
    \/ Cancel

Spec == Init /\ [][Next]_vars

-----------------------------------------------------------------------------
(* ContentCacheService on its own: any caller, any order of calls *)

SampleKeys == {CacheKey("campaign_concept", <<"_theme_", "fantasy">>, 0),
               CacheKey("section", <<"introduction">>, 1)}
SampleValues == {Str(GoodText), Dict(GoodConcept)}
SampleTtls == {1, 2}

CacheCall(op, key, arg, ret, ok) ==
    [NoCacheCall EXCEPT !.op = op, !.key = key, !.arg = arg, !.ret = ret,
                        !.ok = ok, !.at = now]

Tick ==
    /\ now < MaxTime
    /\ now' = now + 1
    /\ UNCHANGED <<content_cache, cache_last, api, watchdog, hashseed, batch, integrity, tasks, generation_requests, image_cache, key_calls, run, campaign,
                   monitor, ghost>>

Set(key, value, ttl_seconds, io) ==
    /\ content_cache' = CacheSetFiles(content_cache, key, value, ttl_seconds, now, io)
    /\ cache_last' = CacheCall("set", key, value, None, CacheSetReturns(io))
    /\ UNCHANGED <<now, api, watchdog, hashseed, batch, integrity, tasks, generation_requests, image_cache, key_calls, run, campaign, monitor, ghost>>

\* follows_set: the call before this one was a set of the same key that
\* returned True, with no time in between.  was_expired: get found a file
\* that a set had written in full and whose expires_at had passed.
Get(key) ==
    /\ cache_last' =
           [CacheCall("get", key,
                      IF cache_last.op = "set" THEN cache_last.arg ELSE None,
                      CacheGet(content_cache, key), TRUE)
            EXCEPT !.follows_set = /\ cache_last.op = "set"
                                   /\ cache_last.key = key
                                   /\ cache_last.ok
                                   /\ cache_last.at = now,
                   !.was_expired = /\ CacheExists(content_cache, key)
                                   /\ content_cache[GetCachePath(key)].readable
                                   /\ CacheIsExpired(content_cache, key, now)]
    /\ UNCHANGED <<now, content_cache, api, watchdog, hashseed, batch, integrity, tasks, generation_requests, image_cache, key_calls, run, campaign,
                   monitor, ghost>>

Delete(key, io) ==
    /\ content_cache' = CacheDeleteFiles(content_cache, key, io)
    /\ cache_last' = CacheCall("delete", key, None, None, io = "ok")
    /\ UNCHANGED <<now, api, watchdog, hashseed, batch, integrity, tasks, generation_requests, image_cache, key_calls, run, campaign, monitor, ghost>>

Exists(key) ==
    /\ cache_last' = CacheCall("exists", key, None, None, CacheExists(content_cache, key))
    /\ UNCHANGED <<now, content_cache, api, watchdog, hashseed, batch, integrity, tasks, generation_requests, image_cache, key_calls, run, campaign,
                   monitor, ghost>>

IsExpired(key) ==
    /\ cache_last' = CacheCall("is_expired", key, None, None,
                               CacheIsExpired(content_cache, key, now))
    /\ UNCHANGED <<now, content_cache, api, watchdog, hashseed, batch, integrity, tasks, generation_requests, image_cache, key_calls, run, campaign,
                   monitor, ghost>>

InitCache ==
    /\ Init
    /\ content_cache = <<>>
    /\ api = NewApi(TRUE)
    /\ hashseed = "seed_a"
    /\ batch = NoBatch
    /\ integrity = NoIntegrityCall
    /\ tasks = NoTasks
    /\ generation_requests = NoGenerationRequests
    /\ image_cache = NoImageCache
    /\ key_calls = NoKeyCalls

NextCache ==
    \/ Tick
    \/ \E key \in SampleKeys, value \in SampleValues, ttl \in SampleTtls,
          io \in IoOutcomes : Set(key, value, ttl, io)
    \/ \E key \in SampleKeys : Get(key)
    \/ \E key \in SampleKeys, io \in {"ok", "open_fails"} : Delete(key, io)
    \/ \E key \in SampleKeys : Exists(key)
    \/ \E key \in SampleKeys : IsExpired(key)

SpecCache == InitCache /\ [][NextCache]_vars

\* C6: when the ttl of an entry has run out, get returns a miss and removes
\* the entry from the store.
C6_ExpiredEntryIsMissAndRemoved ==
    (cache_last.op = "get" /\ cache_last.was_expired) =>
        /\ cache_last.ret = None
        /\ ~CacheExists(content_cache, cache_last.key)

-----------------------------------------------------------------------------
(* WatchdogService on its own: any caller, any order of calls *)

MaxWatchdogOps == 4
MaxCallbacks == 2

ApiNames == {"claude", "gemini", "total"}
Costs == {NoCost, 0, 2}
Sources == {"claude", "chatgpt"}
VerifiedTexts == {GoodText, ShortApology}
Scores == {3, DefaultScore}
Callbacks == {Callback(TRUE, FALSE), Callback(TRUE, TRUE), Callback(FALSE, TRUE)}

RECURSIVE SumOver(_, _)
SumOver(f, S) ==
    IF S = {} THEN 0
    ELSE LET x == CHOOSE y \in S : TRUE IN f[x] + SumOver(f, S \ {x})

\* get_api_usage_summary
GetApiUsageSummary(w) ==
    [total_calls |-> SumOver(w.api_calls, DOMAIN w.api_calls),
     calls_by_api |-> w.api_calls,
     estimated_cost |-> [a \in DOMAIN w.api_calls |->
                            IF a \in DOMAIN w.cost_estimates
                            THEN w.cost_estimates[a] ELSE 0],
     total_estimated_cost |-> w.cost_estimates["total"]]

\* What the callers did so far.  calls, costs: the track_api_call invocations
\* and the costs passed, per API name; failures: the failed verifications of
\* each source since its last valid one; expected: one call for every alert
\* and every callback registered when the alert was created.
NoWatchdogOp == [op |-> "none", source |-> "none", invalid |-> FALSE,
                 raised |-> FALSE, score |-> NoScore, before |-> NewWatchdog]
NoWatchdogHistory ==
    [ops |-> 0,
     calls |-> [a \in ApiNames |-> 0],
     costs |-> [a \in ApiNames |-> 0],
     failures |-> [s \in Sources |-> 0],
     expected |-> <<>>,
     last |-> NoWatchdogOp]

WatchdogOp(op, source, invalid, raised, score) ==
    [op |-> op, source |-> source, invalid |-> invalid, raised |-> raised,
     score |-> score, before |-> watchdog]

\* The calls that an alert created now owes to the registered callbacks.
Owed(w) ==
    [i \in 1..Len(w.alert_callbacks) |-> [alert |-> Len(w.alerts) + 1, callback |-> i]]

\* register_alert_callback: the append comes first; the log line that
\* follows reads callback.__name__.
WdRegisterAlertCallback(cb) ==
    /\ ghost.ops < MaxWatchdogOps
    /\ Len(watchdog.alert_callbacks) < MaxCallbacks
    /\ watchdog' = [watchdog EXCEPT !.alert_callbacks = Append(@, cb)]
    /\ ghost' = [ghost EXCEPT
                   !.ops = @ + 1,
                   !.last = WatchdogOp("register_alert_callback", "none", FALSE,
                                       ~cb.named, NoScore)]
    /\ UNCHANGED <<now, content_cache, cache_last, api, hashseed, batch, integrity, tasks, generation_requests, image_cache, key_calls, run, campaign,
                   monitor>>

WdTrackApiCall(api_name, cost) ==
    /\ ghost.ops < MaxWatchdogOps
    /\ watchdog' = TrackApiCall(watchdog, api_name, cost)
    /\ ghost' = [ghost EXCEPT
                   !.ops = @ + 1,
                   !.calls[api_name] = @ + 1,
                   !.costs[api_name] = IF cost = NoCost THEN @ ELSE @ + cost,
                   !.last = WatchdogOp("track_api_call", api_name, FALSE, FALSE,
                                       NoScore)]
    /\ UNCHANGED <<now, content_cache, cache_last, api, hashseed, batch, integrity, tasks, generation_requests, image_cache, key_calls, run, campaign,
                   monitor>>

WdVerifyAiResponse(content, source) ==
    /\ ghost.ops < MaxWatchdogOps
    /\ watchdog' = VerifyAiResponse(watchdog, content, source)
    /\ ghost' = [ghost EXCEPT
                   !.ops = @ + 1,
                   !.failures[source] = IF VerifyContent(content) THEN 0 ELSE @ + 1,
                   !.expected = IF VerifyContent(content) THEN @
                                ELSE @ \o Owed(watchdog),
                   !.last = WatchdogOp("verify_ai_response", source,
                                       ~VerifyContent(content),
                                       ~VerifyContent(content)
                                           /\ CreateAlertRaises(watchdog),
                                       NoScore)]
    /\ UNCHANGED <<now, content_cache, cache_last, api, hashseed, batch, integrity, tasks, generation_requests, image_cache, key_calls, run, campaign,
                   monitor>>

WdTrackQualityScore(score) ==
    /\ ghost.ops < MaxWatchdogOps
    /\ watchdog' = TrackQualityScore(watchdog, score)
    /\ ghost' = [ghost EXCEPT
                   !.ops = @ + 1,
                   !.expected = IF score < QualityFloor THEN @ \o Owed(watchdog)
                                ELSE @,
                   !.last = WatchdogOp("track_quality_score", "quality_checker",
                                       FALSE,
                                       score < QualityFloor
                                           /\ CreateAlertRaises(watchdog),
                                       score)]
    /\ UNCHANGED <<now, content_cache, cache_last, api, hashseed, batch, integrity, tasks, generation_requests, image_cache, key_calls, run, campaign,
                   monitor>>

InitWatchdog ==
    /\ now = 0
    /\ content_cache = <<>>
    /\ cache_last = NoCacheCall
    /\ api = NewApi(TRUE)
    /\ watchdog = NewWatchdog
    /\ hashseed = "seed_a"
    /\ batch = NoBatch
    /\ integrity = NoIntegrityCall
    /\ tasks = NoTasks
    /\ generation_requests = NoGenerationRequests
    /\ image_cache = NoImageCache
    /\ key_calls = NoKeyCalls
    /\ run = NoRun
    /\ campaign = NoCampaign
    /\ monitor = NewMonitor
    /\ ghost = NoWatchdogHistory

NextWatchdog ==
    \/ \E cb \in Callbacks : WdRegisterAlertCallback(cb)
    \/ \E api_name \in ApiNames, cost \in Costs : WdTrackApiCall(api_name, cost)
    \/ \E content \in VerifiedTexts, source \in Sources :
           WdVerifyAiResponse(content, source)
    \/ \E score \in Scores : WdTrackQualityScore(score)

SpecWatchdog == InitWatchdog /\ [][NextWatchdog]_vars

\* C12: after any sequence of track_api_call invocations, for any API names,
\* the usage summary's total_calls is the number of invocations, its
\* total_estimated_cost the sum of the costs passed, and each API's call count
\* and estimated cost are the count and the sum of its own invocations.
C12_UsageSummaryMatchesInvocations ==
    LET summary == GetApiUsageSummary(watchdog) IN
    /\ summary.total_calls = SumOver(ghost.calls, ApiNames)
    /\ summary.total_estimated_cost = SumOver(ghost.costs, ApiNames)
    /\ \A a \in ApiNames : ghost.calls[a] > 0 =>
          /\ summary.calls_by_api[a] = ghost.calls[a]
          /\ summary.estimated_cost[a] = ghost.costs[a]

\* The last call created an alert.
AlertCreated ==
    \/ ghost.last.op = "verify_ai_response" /\ ghost.last.invalid
    \/ ghost.last.op = "track_quality_score" /\ ghost.last.score < QualityFloor

\* C14: the alert of a failed verification is CRITICAL exactly when its own
\* source has produced at least alert_threshold failed verifications in a
\* row, other sources' results neither advancing nor resetting that count;
\* otherwise it is WARNING.
C14_CriticalAfterConsecutiveFailuresOfSource ==
    (ghost.last.op = "verify_ai_response" /\ ghost.last.invalid) =>
        LET alert == watchdog.alerts[Len(watchdog.alerts)] IN
        /\ alert.source = ghost.last.source
        /\ alert.severity =
              IF ghost.failures[ghost.last.source] >= alert_threshold
              THEN "critical" ELSE "warning"

\* C16: for every alert created, every callback registered at that time is
\* invoked exactly once, in registration order, also after a callback that
\* raised; the exception never leaves the call that created the alert, and
\* the alert is recorded.
C16_EveryCallbackInvokedOncePerAlert ==
    /\ watchdog.invoked = ghost.expected
    /\ AlertCreated =>
          /\ ~ghost.last.raised
          /\ Len(watchdog.alerts) = Len(ghost.last.before.alerts) + 1

-----------------------------------------------------------------------------
(* generate_batch_images on its own: the tasks that asyncio.gather runs *)

MaxPrompts == 5
MaxBatches == 2

\* What generate_image comes to: a path, None, or an exception.
ImageOutcomes == {"path", "none", "raised"}

\* generate_batch_images(prompts): a fresh semaphore and one limited_generate
\* per prompt, all handed to asyncio.gather.  (The coroutines of the `tasks`
\* list are never awaited and make no request.)
GenerateBatchImages(n) ==
    /\ batch.pc \in {"idle", "returned"}
    /\ batch.calls < MaxBatches
    /\ batch' = [pc |-> "gathering", calls |-> batch.calls + 1,
                 tasks |-> [i \in 1..n |-> "waiting"],
                 semaphore |-> SemaphoreLimit,
                 results |-> <<>>]
    /\ UNCHANGED <<now, content_cache, cache_last, api, watchdog, hashseed, run,
                   campaign, monitor, ghost, integrity, tasks,
                   generation_requests, image_cache, key_calls>>

\* A task that starts its request without waiting for a permit.
AcquireUnlimited(i) ==
    /\ batch.pc = "gathering"
    /\ i \in 1..Len(batch.tasks)
    /\ batch.tasks[i] = "waiting"
    /\ batch' = [batch EXCEPT !.tasks[i] = "in_flight", !.semaphore = @ - 1]
    /\ UNCHANGED <<now, content_cache, cache_last, api, watchdog, hashseed, run,
                   campaign, monitor, ghost, integrity, tasks,
                   generation_requests, image_cache, key_calls>>

\* async with semaphore: the task enters when the value is positive and
\* starts its generate_image request.
Acquire(i) ==
    /\ batch.pc = "gathering"
    /\ i \in 1..Len(batch.tasks)
    /\ batch.tasks[i] = "waiting"
    /\ batch.semaphore > 0
    /\ batch' = [batch EXCEPT !.tasks[i] = "in_flight", !.semaphore = @ - 1]
    /\ UNCHANGED <<now, content_cache, cache_last, api, watchdog, hashseed, run,
                   campaign, monitor, ghost, integrity, tasks,
                   generation_requests, image_cache, key_calls>>

\* generate_image ends; leaving the `async with` releases the semaphore,
\* also when the request raised.
Complete(i, outcome) ==
    /\ batch.pc = "gathering"
    /\ i \in 1..Len(batch.tasks)
    /\ batch.tasks[i] = "in_flight"
    /\ batch' = [batch EXCEPT !.tasks[i] = outcome, !.semaphore = @ + 1]
    /\ UNCHANGED <<now, content_cache, cache_last, api, watchdog, hashseed, run,
                   campaign, monitor, ghost, integrity, tasks,
                   generation_requests, image_cache, key_calls>>

\* gather(return_exceptions=True) returns when every task has ended; an
\* exception becomes None in the list that is returned.
ReturnResults ==
    /\ batch.pc = "gathering"
    /\ \A i \in 1..Len(batch.tasks) : batch.tasks[i] \in ImageOutcomes
    /\ batch' = [batch EXCEPT
                   !.pc = "returned",
                   !.results = [i \in 1..Len(batch.tasks) |->
                                   IF batch.tasks[i] = "raised" THEN "none"
                                   ELSE batch.tasks[i]]]
    /\ UNCHANGED <<now, content_cache, cache_last, api, watchdog, hashseed, run,
                   campaign, monitor, ghost, integrity, tasks,
                   generation_requests, image_cache, key_calls>>

InitBatch ==
    /\ now = 0
    /\ content_cache = <<>>
    /\ cache_last = NoCacheCall
    /\ api = NewApi(TRUE)
    /\ watchdog = NewWatchdog
    /\ hashseed = "seed_a"
    /\ run = NoRun
    /\ campaign = NoCampaign
    /\ monitor = NewMonitor
    /\ ghost = NewGhost
    /\ batch = NoBatch
    /\ integrity = NoIntegrityCall
    /\ tasks = NoTasks
    /\ generation_requests = NoGenerationRequests
    /\ image_cache = NoImageCache
    /\ key_calls = NoKeyCalls

NextBatch ==
    \/ \E n \in 0..MaxPrompts : GenerateBatchImages(n)
    \/ \E i \in 1..MaxPrompts : Acquire(i)
    \/ \E i \in 1..MaxPrompts, outcome \in ImageOutcomes : Complete(i, outcome)
    \/ ReturnResults

SpecBatch == InitBatch /\ [][NextBatch]_vars

\* C20: at every moment at most a fixed number of external calls are in
\* flight for one call, however many prompts were requested; for batch image
\* generation that number is 3.
C20_InFlightBounded ==
    /\ InFlight(batch) <= SemaphoreLimit
    /\ InFlight(batch) + batch.semaphore =
          (IF batch.pc = "idle" THEN 0 ELSE SemaphoreLimit)

\* More prompts than permits, and every permit taken.
C20_Witness ==
    /\ Len(batch.tasks) > SemaphoreLimit
    /\ InFlight(batch) = SemaphoreLimit
    /\ \E i \in 1..Len(batch.tasks) : batch.tasks[i] = "waiting"
    /\ \E i \in 1..Len(batch.tasks) : batch.tasks[i] \in ImageOutcomes

-----------------------------------------------------------------------------
(* ClaudeAIService on its own: calls of the generator client *)

\* What the provider would answer if the same prompt were sent once more.
RetryOutcomes == {ExtResponse(GoodText), ExtRaise("timeout"), ExtRaise("network")}

\* tracked: the track_api_call invocations made during the call.
ApiCall(op, ext, retry, out) ==
    LET after == CallClaudeApiWatchdog(watchdog, api.client, ext) IN
    [op |-> op, ext |-> ext, retry |-> retry,
     r |-> CallClaudeApiMonitored(watchdog, api.client, ext), out |-> out,
     tracked |-> SumOver(after.api_calls, DOMAIN after.api_calls)
                 - SumOver(watchdog.api_calls, DOMAIN watchdog.api_calls)]

\* What a generate_* method passes on: the exception of _call_claude_api
\* (logged and re-raised), or its own result.
Passed(ext, result) ==
    LET r == CallClaudeApiMonitored(watchdog, api.client, ext) IN
    IF r.raises # "none" THEN Raise(r.raises) ELSE result

\* await self._call_claude_api(prompt)
CallApi(ext, retry) ==
    /\ api.calls < MaxApiCalls
    /\ api' = [api EXCEPT
                 !.calls = @ + 1,
                 !.last = ApiCall("_call_claude_api", ext, retry,
                                  Passed(ext, Return(Str(
                                      CallClaudeApi(api.client, ext).content))))]
    /\ watchdog' = CallClaudeApiWatchdog(watchdog, api.client, ext)
    /\ UNCHANGED <<now, content_cache, cache_last, hashseed, batch, integrity, tasks, generation_requests, image_cache, key_calls, run, campaign, monitor,
                   ghost>>

\* generate_introduction, generate_setting, ... (one _call_claude_api each)
GenerateSectionCall(ext, retry) ==
    /\ api.calls < MaxApiCalls
    /\ api' = [api EXCEPT
                 !.calls = @ + 1,
                 !.last = ApiCall("generate_section", ext, retry,
                                  Passed(ext, Return(Str(
                                      GenerateSectionContent(api.client, ext)))))]
    /\ watchdog' = CallClaudeApiWatchdog(watchdog, api.client, ext)
    /\ UNCHANGED <<now, content_cache, cache_last, hashseed, batch, integrity, tasks, generation_requests, image_cache, key_calls, run, campaign, monitor,
                   ghost>>

\* generate_campaign_concept (one _call_claude_api)
GenerateConceptCall(ext, retry) ==
    /\ api.calls < MaxApiCalls
    /\ api' = [api EXCEPT
                 !.calls = @ + 1,
                 !.last = ApiCall("generate_campaign_concept", ext, retry,
                                  Passed(ext, GenerateCampaignConcept(api.client, ext)))]
    /\ watchdog' = CallClaudeApiWatchdog(watchdog, api.client, ext)
    /\ UNCHANGED <<now, content_cache, cache_last, hashseed, batch, integrity, tasks, generation_requests, image_cache, key_calls, run, campaign, monitor,
                   ghost>>

\* The watchdog a client is built with: fresh, or with one callback that its
\* owner registered (a function that raises, or a callable object that does).
ClientWatchdogs ==
    {[NewWatchdog EXCEPT !.alert_callbacks = callbacks] :
        callbacks \in {<<>>, <<Callback(TRUE, TRUE)>>, <<Callback(FALSE, TRUE)>>}}

InitClient ==
    /\ now = 0
    /\ content_cache = <<>>
    /\ cache_last = NoCacheCall
    /\ api \in {NewApi(c) : c \in BOOLEAN}
    /\ watchdog \in ClientWatchdogs
    /\ hashseed = "seed_a"
    /\ batch = NoBatch
    /\ integrity = NoIntegrityCall
    /\ tasks = NoTasks
    /\ generation_requests = NoGenerationRequests
    /\ image_cache = NoImageCache
    /\ key_calls = NoKeyCalls
    /\ run = NoRun
    /\ campaign = NoCampaign
    /\ monitor = NewMonitor
    /\ ghost = NewGhost

NextClient ==
    \/ \E ext \in ExtOutcomes, retry \in RetryOutcomes : CallApi(ext, retry)
    \/ \E ext \in ExtOutcomes, retry \in RetryOutcomes : GenerateSectionCall(ext, retry)
    \/ \E ext \in ExtOutcomes, retry \in RetryOutcomes : GenerateConceptCall(ext, retry)

SpecClient == InitClient /\ [][NextClient]_vars

\* C2: when the client's own integrity validation rejects a response, the
\* call raises an integrity-violation error; it does not return a canned or
\* fallback response.
C2_ClientRejectionPropagates ==
    (api.last.op = "_call_claude_api" /\ api.client /\ api.last.ext.kind = "response"
     /\ ClientRejects(api.last.ext.text)) =>
        /\ api.last.out = Raise("ContentIntegrityError")
        /\ api.last.r.content # FallbackResponseText

IsTransient(ext) == ext.kind = "raise" /\ ext.err \in TransientErrors

\* C10: on a transient failure of the provider the client sends the prompt
\* once more, two external calls in all; when the second call fails too it
\* raises a transient-provider error, otherwise it returns what the second
\* call answered.
C10_TransientFailureRetriedOnce ==
    (api.last.op = "_call_claude_api" /\ api.client /\ IsTransient(api.last.ext)) =>
        /\ api.last.r.ext_calls = 2
        /\ IF api.last.retry.kind = "raise"
           THEN api.last.out.kind = "raise"
           ELSE api.last.out = Return(Str(api.last.retry.text))

\* C11: a section generator of the client that returns content never returns
\* content shorter than the minimum length configured for its kind, whatever
\* the provider answered.
C11_ReturnedContentMeetsMinLength ==
    (api.last.op = "generate_section" /\ api.last.out.kind = "return") =>
        /\ api.last.out.value.t = "str"
        /\ TextInfo[api.last.out.value.s].stripped >= MinLength("introduction")

C15_MonitoringFailureContained ==
    api.last.op = "_call_claude_api" =>
        LET quiet == CallClaudeApi(api.client, api.last.ext) IN
        /\ api.last.r.raises = "none"
        /\ api.last.out = Return(Str(quiet.content))

-----------------------------------------------------------------------------
(* Properties of generate_campaign *)

\* The validator of an entry's kind: validate_campaign_concept for a concept
\* key, validate_text_content under the section id for a section key.
Validates(key, value) ==
    IF key.ns = "campaign_concept"
    THEN ValidateCampaignConcept(value) = "ok"
    ELSE ValidateText(key.pref[1], value) = "ok"

\* C1: whatever a call writes to the content cache or serves from it as a
\* cache hit passes the integrity validator of its kind, and every entry a
\* call accepted into the cache still validates when it is read back.
C1_CacheHoldsOnlyValidatedContent ==
    /\ \A e \in ghost.writes \cup ghost.hits : Validates(e.key, e.value)
    /\ \A key \in ghost.accepted :
          TruthyValue(CacheGet(content_cache, key)) =>
              Validates(key, CacheGet(content_cache, key))

C1_Witness ==
    /\ \E e \in ghost.hits : e.key.ns = "campaign_concept"
    /\ \E e \in ghost.writes : e.key.ns = "section"
    /\ \E key \in ghost.accepted : key \notin ghost.keys

\* C3: a call in which the generator answered every prompt with an apology
\* or refusal ends with an error and has written no cache entry.
C3_ApologyOnlyRunFailsWithoutCaching ==
    (run.pc \in {"done", "failed"} /\ ghost.replies = "apology") =>
        /\ run.result.kind = "raise"
        /\ ghost.writes = {}

\* C4: the campaign is COMPLETED, and its id returned, only when the final
\* whole-campaign pass succeeded on it (title, description, every section and
\* the free-form input validate); when that pass fails the call raises an
\* integrity error and the campaign is not COMPLETED.
C4_CompletedOnlyAfterFinalPass ==
    /\ (campaign.status = "completed" \/ run.result.kind = "return") =>
          /\ ghost.final = "passed"
          /\ ValidateTextContent("campaign_title", campaign.name) = "ok"
          /\ ValidateTextContent("campaign_description", campaign.description) = "ok"
          /\ \A i \in 1..Len(campaign.sections) :
                ValidateText(campaign.sections[i].section_id,
                             campaign.sections[i].content) = "ok"
          /\ campaign.freeform_input \in {Absent, Empty}
             \/ ValidateTextContent("player_input", campaign.freeform_input) = "ok"
    /\ ghost.final = "failed" =>
          /\ run.result = RunRaise("ContentIntegrityError")
          /\ campaign.status # "completed"

C4_Witness ==
    /\ run.pc = "done"
    /\ run.result = RunReturn(run.id)
    /\ campaign.status = "completed"
    /\ Len(campaign.sections) = NumSections(run.req.mode)
    /\ monitor.metrics["error_rate"] > 0

ErrorTags == {"quality_warning", "service_error", "error"}

\* C5: each pass over the configured list adds exactly one section, under the
\* configured id, and that section carries an error tag unless its content
\* passed the validator.
C5_EverySectionTaggedOrValidated ==
    /\ run.pc \in {"final", "score", "done"} =>
          Len(campaign.sections) = NumSections(run.req.mode)
    /\ \A i \in 1..Len(campaign.sections) :
          /\ campaign.sections[i].section_id = SectionsConfig(run.req.mode)[i][1]
          /\ \/ campaign.sections[i].tag \in ErrorTags
             \/ ValidateText(campaign.sections[i].section_id,
                             campaign.sections[i].content) = "ok"

\* C8: a cached entry that failed re-validation in this call was treated as
\* a miss (the generator was called for its key) and no longer sits in the
\* cache with content that fails the validator.
C8_StaleEntryDeletedAndRegenerated ==
    \A key \in ghost.stale :
        /\ key \in ghost.gen_calls
        /\ TruthyValue(CacheGet(content_cache, key)) =>
              Validates(key, CacheGet(content_cache, key))

SameEntry(k1, k2) == k1.ns = k2.ns /\ k1.pref = k2.pref

\* C9: a call with the parameters of the call before it derives the same
\* cache key for the concept and for every section, and calls the generator
\* for nothing the earlier call had accepted into the cache.
C9_IdenticalRequestReusesContent ==
    (run.id > 1 /\ run.req = ghost.prev.req) =>
        /\ \A k1 \in ghost.keys : \A k2 \in ghost.prev.keys :
              SameEntry(k1, k2) => k1 = k2
        /\ \A k1 \in ghost.gen_calls :
              ~ \E k2 \in ghost.prev.accepted \cap ghost.prev.keys : SameEntry(k1, k2)

\* What track_quality_score leaves alone.
SameUsage(w1, w2) ==
    /\ w1.api_calls = w2.api_calls
    /\ w1.cost_estimates = w2.cost_estimates
    /\ w1.error_count = w2.error_count
    /\ w1.alert_callbacks = w2.alert_callbacks

GetGenerationStatus(request_id) ==
    [request_id |-> request_id, status |-> "completed", campaign_id |-> request_id,
     progress |-> 100]

\* C18: get_generation_status reports pending for a generation that has not
\* finished, failed for one that ended in an error, and completed only for
\* one that returned; never completed for an unknown request.
C18_StatusReflectsRun ==
    /\ run.pc \notin {"idle", "done", "failed", "cancelled"} =>
          GetGenerationStatus(run.id).status = "pending"
    /\ run.pc = "failed" => GetGenerationStatus(run.id).status = "failed"
    /\ run.pc = "done" => GetGenerationStatus(run.id).status = "completed"
    /\ \A unknown \in (run.id + 1)..(MaxRuns + 1) :
          GetGenerationStatus(unknown).status # "completed"

-----------------------------------------------------------------------------
(* Missing generator credentials *)

\* C21: when the generator credentials are missing, a run aborts with a
\* configuration error before any generator call, any cache write and any
\* partial output; it never proceeds with the substitute key or with mock
\* responses.
C21_MissingCredentialsAbortRun ==
    api.api_key = MockKey =>
        /\ run.pc \in {"idle", "concept", "failed"}
        /\ run.pc = "failed" => run.result.err = "ConfigurationError"
        /\ ghost.gen_calls = {}
        /\ ghost.writes = {}
        /\ campaign = NoCampaign

-----------------------------------------------------------------------------
(* ContentIntegrityWatchdog as a component: any category, any argument *)

\* An argument of validate_text_content by what the code reads of it.
\* raw: len(content); stripped: len(content.strip()); words and words_lower:
\* the distinct words of content.split() and of content.lower().split();
\* pat: "exact" when a forbidden pattern occurs as written in the list,
\* "other_case" when one occurs only in another case ("PLACEHOLDER").
StrArg(raw, stripped, words, words_lower, pat) ==
    [kind |-> "str", raw |-> raw, stripped |-> stripped, words |-> words,
     words_lower |-> words_lower, pat |-> pat]
NoneArg == [kind |-> "none", raw |-> 0, stripped |-> 0, words |-> 0,
            words_lower |-> 0, pat |-> "none"]
ListArg == [NoneArg EXCEPT !.kind = "list", !.raw = 3]

StrippedLengths == {0, 19, 59, 99, 100, 199, 200, 299, 300}
Paddings == {0, 6}
LowerWordCounts == {0, 1, 4, 5, 12}
CaseVariants == {0, 2}
PatternOccurrences == {"none", "exact", "other_case"}

\* The strings among them: only whitespace has no word, every word takes a
\* character and a separator, and the shortest pattern ("tbd") takes three.
StrArgs ==
    {StrArg(s + p, s, w + v, w, o) :
        s \in StrippedLengths, p \in Paddings, w \in LowerWordCounts,
        v \in CaseVariants, o \in PatternOccurrences} \cap
    {c \in [kind : {"str"}, raw : 0..306, stripped : StrippedLengths,
            words : 0..14, words_lower : LowerWordCounts,
            pat : PatternOccurrences] :
        /\ (c.stripped = 0) = (c.words_lower = 0)
        /\ c.words_lower = 0 => c.words = 0
        /\ 2 * c.words <= c.stripped + 1
        /\ c.pat # "none" => c.stripped >= 3}

ContentArgs == StrArgs \cup {NoneArg, ListArg}

Categories == DOMAIN min_section_lengths \cup DOMAIN LowerTable \cup
              {"concept_title", "ai_response", "player_input"}

\* not content or not isinstance(content, str)
Falsy(c) == c.raw = 0 \/ c.kind # "str"

\* The checks applied to the text as written: no strip(), no lower().
ValidateTextContentAsWritten(section_name, c) ==
    TextVerdict(section_name, Falsy(c), c.pat = "exact", c.raw, c.words)

\* validate_text_content(section_name, content) on such an argument.
ValidateTextContentArg(section_name, c) ==
    TextVerdict(section_name, Falsy(c), c.pat # "none", c.stripped, c.words_lower)

\* What a call did: it returned True, or it raised ContentIntegrityError
\* with the violation of the first failing check.
Returned == [returns |-> "True", raises |-> "none", violation |-> "none"]
Raised(violation) ==
    [returns |-> "none", raises |-> "ContentIntegrityError", violation |-> violation]
Outcome(verdict) == IF verdict = "ok" THEN Returned ELSE Raised(verdict)

IntegrityCall(op, section_name, content, concept, result) ==
    [op |-> op, section_name |-> section_name, content |-> content,
     concept |-> concept, result |-> result]

\* The calls a caller can make, before they are made.
NotCalled == [returns |-> "none", raises |-> "none", violation |-> "none"]
TextCalls ==
    {IntegrityCall("validate_text_content", n, c, None, NotCalled) :
        n \in Categories, c \in ContentArgs}

ValidateTextContentCall ==
    /\ integrity.op = "validate_text_content"
    /\ integrity.result = NotCalled
    /\ integrity' = [integrity EXCEPT !.result =
           Outcome(ValidateTextContentArg(integrity.section_name, integrity.content))]
    /\ UNCHANGED <<pipeline_vars, tasks, generation_requests, image_cache, key_calls>>

\* Concepts as a generator or a cache file can hold them.
ConceptTitles == {Absent, OrdinaryTitle, LongTitle, GoodText, PlaceholderDoc}
ConceptSubtitles == {Absent, DefaultSubtitle, GoodText}
ConceptDescriptions == {Absent, GoodText, MediumText, RepeatedText, ShortNote}
ConceptLevelRanges == {Absent, DefaultLevelRange}
Concepts ==
    {Dict([title |-> a, subtitle |-> b, description |-> c, level_range |-> d]) :
        a \in ConceptTitles, b \in ConceptSubtitles, c \in ConceptDescriptions,
        d \in ConceptLevelRanges} \cup {None, Str(GoodText)}

ConceptCalls ==
    {IntegrityCall("validate_campaign_concept", "none", NoneArg, concept, NotCalled) :
        concept \in Concepts}

ValidateCampaignConceptCall ==
    /\ integrity.op = "validate_campaign_concept"
    /\ integrity.result = NotCalled
    /\ integrity' = [integrity EXCEPT !.result =
           Outcome(ValidateCampaignConcept(integrity.concept))]
    /\ UNCHANGED <<pipeline_vars, tasks, generation_requests, image_cache, key_calls>>

InitIntegrity ==
    /\ now = 0
    /\ content_cache = <<>>
    /\ cache_last = NoCacheCall
    /\ api = NewApi(TRUE)
    /\ watchdog = NewWatchdog
    /\ hashseed = "seed_a"
    /\ batch = NoBatch
    /\ run = NoRun
    /\ campaign = NoCampaign
    /\ monitor = NewMonitor
    /\ ghost = NewGhost
    /\ integrity \in TextCalls \cup ConceptCalls
    /\ tasks = NoTasks
    /\ generation_requests = NoGenerationRequests
    /\ image_cache = NoImageCache
    /\ key_calls = NoKeyCalls

NextIntegrity ==
    \/ ValidateTextContentCall
    \/ ValidateCampaignConceptCall

SpecIntegrity == InitIntegrity /\ [][NextIntegrity]_vars

\* The minimum the claim names for a category: the table entry of its
\* lowercase form, 100 for a category not in the table.
ExpectedMinimum(section_name) ==
    CASE section_name = "Introduction" -> 200
      [] section_name = "SETTING" -> 300
      [] section_name \in DOMAIN min_section_lengths -> min_section_lengths[section_name]
      [] OTHER -> 100

Clean(text) == text = Absent \/ ~TextInfo[text].pat

\* C23: validate_campaign_concept returns True for every concept that has
\* title, description and level_range, whose text fields contain no forbidden
\* pattern and whose description is a varied text of at least 100
\* characters, whatever the length of its title and subtitle.
C23_ConceptWithVariedDescriptionIsValid ==
    (/\ integrity.op = "validate_campaign_concept"
     /\ integrity.result # NotCalled
     /\ integrity.concept.t = "dict"
     /\ \A f \in {"title", "description", "level_range"} :
            integrity.concept.d[f] # Absent
     /\ Clean(integrity.concept.d.title)
     /\ Clean(integrity.concept.d.subtitle)
     /\ Clean(integrity.concept.d.description)
     /\ TextInfo[integrity.concept.d.description].stripped >= 100
     /\ TextInfo[integrity.concept.d.description].words >= 5)
    => integrity.result = Returned

\* C24: for any category, non-empty content without forbidden pattern and
\* with fewer than 5 distinct lowercase words is rejected with the "lacks
\* sufficient variety" violation, whatever its length.
C24_FewWordsRejectedForVariety ==
    (/\ integrity.op = "validate_text_content"
     /\ integrity.result # NotCalled
     /\ integrity.content.kind = "str"
     /\ integrity.content.raw > 0
     /\ integrity.content.pat = "none"
     /\ integrity.content.words_lower < 5)
    => integrity.result = Raised("no_variety")

-----------------------------------------------------------------------------
(* The final pass and the request *)

\* The campaign of the run as it would be for other custom instructions.
WithInstructions(c, custom_instructions) ==
    [c EXCEPT !.freeform_input = custom_instructions]

\* C25: the outcome of the final whole-campaign pass depends only on the
\* title, the description and the sections of the campaign: the same
\* artifact gets the same verdict whatever the custom instructions of the
\* request were.
C25_FinalVerdictDependsOnArtifactOnly ==
    run.pc = "final" =>
        \A req \in Requests :
            ValidateEntireCampaign(WithInstructions(campaign, req.custom_instructions))
                = ValidateEntireCampaign(campaign)

-----------------------------------------------------------------------------
(* generate_campaign calls running concurrently on one event loop *)

MaxTasks == 2
MaxTaskRuns == 2

\* pc: "concept_call" and "section_call" are the awaits of a generator call;
\* key: the cache key the call in flight generates for.
NoTask == [pc |-> "idle", runs |-> 0, id |-> 0, req |-> NoRequest,
           key |-> CacheKey("none", <<>>, 0)]

InFlightPcs == {"concept_call", "section_call"}

TaskGenerators ==
    {ViaClaude(ExtResponse(GoodConceptJson)), ViaClaude(ExtResponse(GoodText)),
     ViaClaude(ExtRaise("timeout"))}

\* str(uuid4()): an id no other call has.
TaskCampaignId(i, runs) == (i - 1) * MaxTaskRuns + runs

\* The section call of a run: the cache key holds the campaign id, so the
\* lookup of a new campaign misses and the generator is called.
AwaitSection(task) ==
    [task EXCEPT !.pc = "section_call",
                 !.key = GetSectionCacheKey("introduction", task.id)]

\* generate_campaign up to its first suspension: content_cache.get does file
\* I/O without suspending (it acquires a Lock object created for that one
\* call), then either the cached concept is used or the coroutine awaits
\* generate_campaign_concept.
TaskLookup(i, req) ==
    /\ i \in 1..Len(tasks)
    /\ tasks[i].pc \in {"idle", "done", "failed"}
    /\ tasks[i].runs < MaxTaskRuns
    /\ LET key == GetConceptCacheKey(CreatePreferencesFromParams(req), hashseed)
           started == [tasks[i] EXCEPT !.runs = @ + 1,
                                       !.id = TaskCampaignId(i, tasks[i].runs + 1),
                                       !.req = req, !.key = key]
       IN tasks' = [tasks EXCEPT ![i] =
                      IF CachedConceptUsable(CacheGet(content_cache, key))
                      THEN AwaitSection(started)
                      ELSE [started EXCEPT !.pc = "concept_call"]]
    /\ UNCHANGED <<pipeline_vars, integrity, generation_requests, image_cache, key_calls>>

\* The generator returns to the run that awaited it: lines 98-110, then the
\* run goes on to its section call.
TaskConceptReturns(i, g, io) ==
    /\ i \in 1..Len(tasks)
    /\ tasks[i].pc = "concept_call"
    /\ LET out == ConceptOutcome(api.client, g) IN
       IF \/ out.kind = "raise"
          \/ ~TruthyValue(out.value)
          \/ ConceptValidationRaises(out.value)
       THEN /\ tasks' = [tasks EXCEPT ![i].pc = "failed"]
            /\ UNCHANGED content_cache
       ELSE /\ content_cache' = CacheSetFiles(content_cache, tasks[i].key, out.value,
                                              CacheTtlSeconds, now, io)
            /\ tasks' = [tasks EXCEPT ![i] = AwaitSection(@)]
    /\ UNCHANGED <<now, cache_last, api, watchdog, hashseed, run, campaign, monitor,
                   ghost, batch, integrity, generation_requests, image_cache, key_calls>>

\* The section generator returns; the run ends.
TaskSectionReturns(i) ==
    /\ i \in 1..Len(tasks)
    /\ tasks[i].pc = "section_call"
    /\ tasks' = [tasks EXCEPT ![i].pc = "done"]
    /\ UNCHANGED <<pipeline_vars, integrity, generation_requests, image_cache, key_calls>>

InitConcurrent ==
    /\ now = 0
    /\ content_cache = <<>>
    /\ cache_last = NoCacheCall
    /\ api = NewApi(TRUE)
    /\ watchdog = NewWatchdog
    /\ hashseed = "seed_a"
    /\ batch = NoBatch
    /\ run = NoRun
    /\ campaign = NoCampaign
    /\ monitor = NewMonitor
    /\ ghost = NewGhost
    /\ integrity = NoIntegrityCall
    /\ tasks = [i \in 1..MaxTasks |-> NoTask]
    /\ generation_requests = NoGenerationRequests
    /\ image_cache = NoImageCache
    /\ key_calls = NoKeyCalls

NextConcurrent ==
    \/ \E i \in 1..MaxTasks, req \in Requests : TaskLookup(i, req)
    \/ \E i \in 1..MaxTasks, g \in TaskGenerators, io \in {"ok", "open_fails"} :
           TaskConceptReturns(i, g, io)
    \/ \E i \in 1..MaxTasks : TaskSectionReturns(i)

SpecConcurrent == InitConcurrent /\ [][NextConcurrent]_vars

-----------------------------------------------------------------------------
(* Degraded sections and the final pass *)

\* The texts _generate_all_sections puts in place of a section that failed.
StandInTexts == {QualityIssueText, ServiceErrorText, UnexpectedErrorText}

Degraded(c) == {i \in 1..Len(c.sections) : c.sections[i].tag \in ErrorTags}

\* C27: with the integrity watchdog active, a run in which a section was
\* replaced by a degraded stand-in does not return a campaign id: every
\* stand-in text is shorter than every category minimum, so the final pass
\* rejects the campaign and a successful result holds no degraded section.
C27_DegradedSectionFailsRun ==
    /\ \A text \in StandInTexts, n \in DOMAIN min_section_lengths :
           TextInfo[text].stripped < MinLength(n)
    /\ \A i \in Degraded(campaign) :
           campaign.sections[i].content = Str(campaign.sections[i].content.s)
           /\ campaign.sections[i].content.s \in StandInTexts
    /\ Degraded(campaign) # {} =>
           /\ run.pc \notin {"score", "done"}
           /\ run.result.kind # "return"
           /\ campaign.status # "completed"

\* A run that reached the final pass with a degraded section and was
\* rejected there.
C27_Witness ==
    /\ Degraded(campaign) # {}
    /\ Len(campaign.sections) = NumSections(run.req.mode)
    /\ ghost.final = "failed"
    /\ run.result = RunRaise("ContentIntegrityError")

-----------------------------------------------------------------------------
(* CampaignGenerationServiceImpl.generate_campaign and the request repository *)

MaxRequests == 2

\* A repository call commits, or raises and leaves the rows as they were.
RepoOutcomes == {"ok", "raises"}
\* campaign_repo.save: commit and refresh can each raise.
SaveOutcomes == {"ok", "commit_raises", "refresh_raises"}
\* _generate_campaign_components and _create_campaign_entity
ComponentOutcomes == {"ok", "raises"}

\* update_request_status: UPDATE ... WHERE id = request_id, whatever the
\* status of the row is.
UpdateRequestStatus(g, status) ==
    [g EXCEPT !.status[g.request_id] = status,
              !.trail[g.request_id] = Append(@, status)]

\* generate_campaign, lines 69-80: create_request inserts the row as
\* "pending"; when it raises, so does the call.
CreateRequest(io) ==
    /\ generation_requests.pc \in {"idle", "returned", "raised"}
    /\ Len(generation_requests.status) < MaxRequests
    /\ generation_requests' =
         IF io = "ok"
         THEN [generation_requests EXCEPT
                 !.pc = "created",
                 !.request_id = Len(generation_requests.status) + 1,
                 !.status = Append(@, "pending"),
                 !.trail = Append(@, <<"pending">>),
                 !.campaign_id = Append(@, 0),
                 !.result = "none"]
         ELSE [generation_requests EXCEPT !.pc = "raised", !.request_id = 0,
                                          !.result = "raised"]
    /\ UNCHANGED <<pipeline_vars, integrity, tasks, image_cache, key_calls>>

\* _generate_campaign_async, line 144
MarkProcessing(io) ==
    /\ generation_requests.pc = "created"
    /\ generation_requests' =
         IF io = "ok"
         THEN [UpdateRequestStatus(generation_requests, "processing")
                 EXCEPT !.pc = "components"]
         ELSE [generation_requests EXCEPT !.pc = "except"]
    /\ UNCHANGED <<pipeline_vars, integrity, tasks, image_cache, key_calls>>

\* Lines 147-154
GenerateComponents(outcome) ==
    /\ generation_requests.pc = "components"
    /\ generation_requests' =
         [generation_requests EXCEPT !.pc = IF outcome = "ok" THEN "save" ELSE "except"]
    /\ UNCHANGED <<pipeline_vars, integrity, tasks, image_cache, key_calls>>

\* Line 157: campaign_repo.save
SaveCampaign(io) ==
    /\ generation_requests.pc = "save"
    /\ generation_requests' =
         [generation_requests EXCEPT
            !.pc = IF io = "ok" THEN "complete" ELSE "except",
            !.saved = IF io # "commit_raises"
                      THEN @ \cup {generation_requests.request_id} ELSE @]
    /\ UNCHANGED <<pipeline_vars, integrity, tasks, image_cache, key_calls>>

\* Lines 160-164: the request is completed with the id of the saved
\* campaign, and _generate_campaign_async and generate_campaign return.
MarkCompleted(io) ==
    /\ generation_requests.pc = "complete"
    /\ generation_requests' =
         IF io = "ok"
         THEN [UpdateRequestStatus(generation_requests, "completed") EXCEPT
                 !.campaign_id[generation_requests.request_id] =
                     generation_requests.request_id,
                 !.pc = "returned", !.result = "returned"]
         ELSE [generation_requests EXCEPT !.pc = "except"]
    /\ UNCHANGED <<pipeline_vars, integrity, tasks, image_cache, key_calls>>

\* Lines 166-170: except Exception marks the request failed; an exception
\* of that update leaves the call.
MarkFailed(io) ==
    /\ generation_requests.pc = "except"
    /\ generation_requests' =
         IF io = "ok"
         THEN [UpdateRequestStatus(generation_requests, "failed") EXCEPT
                 !.pc = "returned", !.result = "returned"]
         ELSE [generation_requests EXCEPT !.pc = "raised", !.result = "raised"]
    /\ UNCHANGED <<pipeline_vars, integrity, tasks, image_cache, key_calls>>

InitRequests ==
    /\ now = 0
    /\ content_cache = <<>>
    /\ cache_last = NoCacheCall
    /\ api = NewApi(TRUE)
    /\ watchdog = NewWatchdog
    /\ hashseed = "seed_a"
    /\ batch = NoBatch
    /\ run = NoRun
    /\ campaign = NoCampaign
    /\ monitor = NewMonitor
    /\ ghost = NewGhost
    /\ integrity = NoIntegrityCall
    /\ tasks = NoTasks
    /\ generation_requests = NoGenerationRequests
    /\ image_cache = NoImageCache
    /\ key_calls = NoKeyCalls

NextRequests ==
    \/ \E io \in RepoOutcomes : CreateRequest(io)
    \/ \E io \in RepoOutcomes : MarkProcessing(io)
    \/ \E outcome \in ComponentOutcomes : GenerateComponents(outcome)
    \/ \E io \in SaveOutcomes : SaveCampaign(io)
    \/ \E io \in RepoOutcomes : MarkCompleted(io)
    \/ \E io \in RepoOutcomes : MarkFailed(io)

SpecRequests == InitRequests /\ [][NextRequests]_vars

TerminalStatuses == {"completed", "failed"}
StatusPaths == {<<"pending">>, <<"pending", "processing">>,
                <<"pending", "processing", "completed">>,
                <<"pending", "processing", "failed">>}

\* The request of a call that returned is in a terminal status.
ReturnedMeansTerminal ==
    generation_requests.result = "returned" =>
        generation_requests.status[generation_requests.request_id] \in TerminalStatuses

\* A request is completed only if its campaign was saved.
CompletedMeansSaved ==
    \A r \in DOMAIN generation_requests.status :
        generation_requests.status[r] = "completed" => r \in generation_requests.saved

\* A request that reached a terminal status got no further status.
TerminalIsFinal ==
    \A r \in DOMAIN generation_requests.trail :
        \A k \in 1..(Len(generation_requests.trail[r]) - 1) :
            generation_requests.trail[r][k] \notin TerminalStatuses

\* C28: the stored status of every request moves only along pending ->
\* processing -> (completed | failed) and never leaves a terminal status;
\* when generate_campaign returns the status is completed or failed, and it
\* is completed only if the campaign was saved.
C28_StatusFollowsLifecycle ==
    /\ \A r \in DOMAIN generation_requests.trail :
           generation_requests.trail[r] \in StatusPaths
    /\ TerminalIsFinal
    /\ ReturnedMeansTerminal
    /\ CompletedMeansSaved

-----------------------------------------------------------------------------
(* _get_concept_cache_key on any two PlayerPreferences of one process *)

\* A str is the sequence of its pieces: the words that occur and "_".
\* freeform_input=None is NoneText; no sample is "".
NoneText == <<Absent>>
ElementSamples == {<<>>, << <<"dragons">> >>, << <<"dragons">>, <<"undead">> >>}
FreeformSamples == {NoneText, <<"dragons">>, <<"_", "undead">>,
                    <<"dragons", "_", "undead">>}
ThemeSamples == {Absent, "fantasy", "horror"}
DifficultySamples == {Absent, "easy"}

PlayerPreferences(theme, difficulty, specific_elements, freeform_input) ==
    [theme |-> theme, difficulty |-> difficulty, setting |-> Absent,
     character_focus |-> Absent, npc_style |-> Absent,
     gameplay_balance |-> Absent, story_length |-> Absent,
     story_tone |-> Absent, specific_elements |-> specific_elements,
     freeform_input |-> freeform_input]

PreferenceSamples ==
    {PlayerPreferences(a, b, c, d) :
        a \in ThemeSamples, b \in DifficultySamples, c \in ElementSamples,
        d \in FreeformSamples}

\* "_".join(specific_elements)
RECURSIVE Join(_)
Join(elements) ==
    IF elements = <<>> THEN <<>>
    ELSE IF Len(elements) = 1 THEN elements[1]
    ELSE elements[1] \o <<"_">> \o Join(Tail(elements))

\* Lines 492-496.  hash(s) % 10000 is a function of s within one process;
\* it stands here as the string it is taken of, so that two keys of the
\* model are equal only if the two keys of the code are.
GetConceptCacheKeyOf(preferences) ==
    LET elements_str == IF preferences.specific_elements # <<>>
                        THEN Join(preferences.specific_elements) ELSE <<>>
        freeform_str == IF preferences.freeform_input # NoneText
                        THEN preferences.freeform_input ELSE <<>>
    IN [ns |-> "campaign_concept", pref |-> PrefStr(preferences),
        hash_of |-> elements_str \o freeform_str]

NoKey == [ns |-> "none", pref |-> <<>>, hash_of |-> <<>>]

\* The key is computed for both preferences.
GetConceptCacheKeys ==
    /\ key_calls.op = "pending"
    /\ key_calls' = [key_calls EXCEPT
                       !.op = "done",
                       !.key_a = GetConceptCacheKeyOf(key_calls.a),
                       !.key_b = GetConceptCacheKeyOf(key_calls.b)]
    /\ UNCHANGED <<pipeline_vars, integrity, tasks, generation_requests, image_cache>>

InitKeys ==
    /\ now = 0
    /\ content_cache = <<>>
    /\ cache_last = NoCacheCall
    /\ api = NewApi(TRUE)
    /\ watchdog = NewWatchdog
    /\ hashseed = "seed_a"
    /\ batch = NoBatch
    /\ run = NoRun
    /\ campaign = NoCampaign
    /\ monitor = NewMonitor
    /\ ghost = NewGhost
    /\ integrity = NoIntegrityCall
    /\ tasks = NoTasks
    /\ generation_requests = NoGenerationRequests
    /\ image_cache = NoImageCache
    /\ key_calls \in {[op |-> "pending", a |-> a, b |-> b, key_a |-> NoKey,
                       key_b |-> NoKey] : a, b \in PreferenceSamples}

NextKeys == GetConceptCacheKeys

SpecKeys == InitKeys /\ [][NextKeys]_vars

\* C29: two requests whose preferences differ in any respect (an enum
\* preference, the specific elements or the free-form input) never map to
\* the same concept cache key.
C29_DifferentPreferencesDifferentKeys ==
    (key_calls.op = "done" /\ key_calls.a # key_calls.b)
        => key_calls.key_a # key_calls.key_b

-----------------------------------------------------------------------------
(* ImageCacheService *)

MaxImageTicks == 3
\* Days that pass between two calls when time passes.
DaysPerTick == 15
\* max_age_days of _is_cache_valid and clear_expired_cache
MaxAgeDays == 30

\* Generation parameters; a str is the sequence of its pieces, as above.
ImageParams(prompt, size) ==
    [prompt |-> prompt, size |-> size, model |-> <<"dall-e-3">>,
     quality |-> <<"standard">>]
ParamSamples ==
    {ImageParams(<<"castle", "_", "wide">>, <<"1024">>),
     ImageParams(<<"castle">>, <<"wide", "_", "1024">>),
     ImageParams(<<"dragon">>, <<"1024">>)}

\* _generate_cache_key: sha256 of f"{prompt}_{size}_{model}_{quality}".
\* SHA-256 is taken as injective, so the digest stands as the string hashed.
GenerateCacheKey(p) ==
    p.prompt \o <<"_">> \o p.size \o <<"_">> \o p.model \o <<"_">> \o p.quality

ImageKeys == {GenerateCacheKey(p) : p \in ParamSamples}

Today(c) == c.ticks * DaysPerTick

\* _is_cache_valid: datetime.now() - cache_time < timedelta(days=max_age_days)
IsCacheValid(entry, today, max_age_days) == today - entry.timestamp < max_age_days

\* remove_cached_image on the files and the metadata: the unlink of an
\* existing file can raise, and the except clause then leaves the metadata
\* entry in place.
RemoveCachedImage(c, cache_key, unlink_raises) ==
    IF cache_key \in c.files /\ unlink_raises THEN c
    ELSE [c EXCEPT
            !.files = @ \ {cache_key},
            !.metadata = [k \in DOMAIN @ \ {cache_key} |-> @[k]]]

ImageCall(op, key, ret, before, after) ==
    LET had == key \in DOMAIN before.metadata IN
    [op |-> op, key |-> key, ret |-> ret,
     existed |-> key \in before.files,
     had_entry |-> had,
     valid |-> had /\ IsCacheValid(before.metadata[key], Today(before), MaxAgeDays),
     matched |-> FALSE,
     file_after |-> key \in after.files,
     entry_after |-> key \in DOMAIN after.metadata]

\* cache_image: copy2 into the cache directory, then the metadata entry with
\* the parameters and the time; when copy2 raises, nothing is recorded.
CacheImage(p, copy_raises) ==
    LET key == GenerateCacheKey(p)
        entry == [prompt |-> p.prompt, size |-> p.size, model |-> p.model,
                  quality |-> p.quality, timestamp |-> Today(image_cache)]
        after == IF copy_raises THEN image_cache
                 ELSE [image_cache EXCEPT
                         !.files = @ \cup {key},
                         !.metadata = (key :> entry) @@ @]
    IN
    /\ image_cache' = [after EXCEPT !.last =
           ImageCall("cache_image", key, IF copy_raises THEN "original" ELSE "path",
                     image_cache, after)]
    /\ UNCHANGED <<pipeline_vars, integrity, tasks, generation_requests, key_calls>>

ParametersMatch(entry, p) ==
    /\ entry.prompt = p.prompt /\ entry.size = p.size
    /\ entry.model = p.model /\ entry.quality = p.quality

\* get_cached_image
GetCachedImage(p, unlink_raises) ==
    LET key == GenerateCacheKey(p)
        c == image_cache
        expired == /\ key \in c.files /\ key \in DOMAIN c.metadata
                   /\ ~IsCacheValid(c.metadata[key], Today(c), MaxAgeDays)
        after == IF expired THEN RemoveCachedImage(c, key, unlink_raises) ELSE c
        ret == IF /\ key \in c.files /\ key \in DOMAIN c.metadata
                  /\ IsCacheValid(c.metadata[key], Today(c), MaxAgeDays)
                  /\ ParametersMatch(c.metadata[key], p)
               THEN "path" ELSE "None"
    IN
    /\ image_cache' = [after EXCEPT !.last =
           [ImageCall("get_cached_image", key, ret, c, after) EXCEPT
               !.matched = key \in DOMAIN c.metadata
                           /\ ParametersMatch(c.metadata[key], p)]]
    /\ UNCHANGED <<pipeline_vars, integrity, tasks, generation_requests, key_calls>>

RemoveCachedImageCall(cache_key, unlink_raises) ==
    LET after == RemoveCachedImage(image_cache, cache_key, unlink_raises) IN
    /\ image_cache' = [after EXCEPT !.last =
           ImageCall("remove_cached_image", cache_key, "None", image_cache, after)]
    /\ UNCHANGED <<pipeline_vars, integrity, tasks, generation_requests, key_calls>>

\* clear_expired_cache: the expired keys are collected, then each is removed;
\* failing: the keys whose unlink raises.
RECURSIVE RemoveAll(_, _, _)
RemoveAll(c, keys, failing) ==
    IF keys = {} THEN c
    ELSE LET k == CHOOSE x \in keys : TRUE IN
         RemoveAll(RemoveCachedImage(c, k, k \in failing), keys \ {k}, failing)

ClearExpiredCache(max_age_days, failing) ==
    LET c == image_cache
        expired_keys == {k \in DOMAIN c.metadata :
                            ~IsCacheValid(c.metadata[k], Today(c), max_age_days)}
        after == RemoveAll(c, expired_keys, failing)
    IN
    /\ image_cache' = [after EXCEPT !.last =
           ImageCall("clear_expired_cache", <<>>, "None", c, after)]
    /\ UNCHANGED <<pipeline_vars, integrity, tasks, generation_requests, key_calls>>

\* Time passes between calls.
ImageTick ==
    /\ image_cache.ticks < MaxImageTicks
    /\ image_cache' = [image_cache EXCEPT !.ticks = @ + 1]
    /\ UNCHANGED <<pipeline_vars, integrity, tasks, generation_requests, key_calls>>

InitImageCache ==
    /\ now = 0
    /\ content_cache = <<>>
    /\ cache_last = NoCacheCall
    /\ api = NewApi(TRUE)
    /\ watchdog = NewWatchdog
    /\ hashseed = "seed_a"
    /\ batch = NoBatch
    /\ run = NoRun
    /\ campaign = NoCampaign
    /\ monitor = NewMonitor
    /\ ghost = NewGhost
    /\ integrity = NoIntegrityCall
    /\ tasks = NoTasks
    /\ generation_requests = NoGenerationRequests
    /\ image_cache = NoImageCache
    /\ key_calls = NoKeyCalls

NextImageCache ==
    \/ \E p \in ParamSamples, copy_raises \in BOOLEAN : CacheImage(p, copy_raises)
    \/ \E p \in ParamSamples, unlink_raises \in BOOLEAN : GetCachedImage(p, unlink_raises)
    \/ \E k \in ImageKeys, unlink_raises \in BOOLEAN : RemoveCachedImageCall(k, unlink_raises)
    \/ \E d \in {0, MaxAgeDays}, failing \in SUBSET ImageKeys : ClearExpiredCache(d, failing)
    \/ ImageTick

SpecImageCache == InitImageCache /\ [][NextImageCache]_vars

\* get_cached_image returned a path only for an existing file with a
\* matching metadata entry younger than the maximum age.
PathOnlyForValidEntry ==
    (image_cache.last.op = "get_cached_image" /\ image_cache.last.ret = "path") =>
        /\ image_cache.last.existed
        /\ image_cache.last.had_entry
        /\ image_cache.last.valid
        /\ image_cache.last.matched

\* C30: after any sequence of cache_image, get_cached_image,
\* remove_cached_image and clear_expired_cache, get_cached_image returns a
\* path only when the image file exists, a metadata entry for the key exists,
\* the entry is younger than the maximum age and its stored parameters equal
\* the requested ones; a read of an expired entry returns None and removes
\* both the file and the metadata entry.
C30_PathOnlyForValidEntryAndExpiredRemoved ==
    /\ PathOnlyForValidEntry
    /\ (/\ image_cache.last.op = "get_cached_image"
        /\ image_cache.last.had_entry
        /\ ~image_cache.last.valid)
       => /\ image_cache.last.ret = "None"
          /\ ~image_cache.last.file_after
          /\ ~image_cache.last.entry_after

=============================================================================
